---- MODULE Spec2Model ----
(***************************************************************************)
(* The autonomous scheduler of components/BotAgent.tsx: the recurring      *)
(* schedule, the run-once-per-slot ledger (lastRuns), the timers of the    *)
(* scheduling effect and the fire-and-forget job runners.                  *)
(*                                                                         *)
(* Time is local wall-clock time at minute granularity, a record           *)
(* [day, hour, minute]; the machine runs at a fixed offset tz (hours) from *)
(* UTC.  Date.now() and Date.getTime() are minutes since the UTC epoch.    *)
(* In the scheduler's view time below the minute is not modelled: the      *)
(* delays of the timers (10s, 30s, 60s) are shorter than one step of the   *)
(* clock, so an armed timer may fire at any later step, and may also not   *)
(* fire before the clock moves on (a throttled or frozen page).  The       *)
(* timers at millisecond times, the retry wrapper, the pipeline, the long  *)
(* batch, the history and the key form of components/ApiKeySelector.tsx    *)
(* each have a view of their own, with their own variable.                 *)
(***************************************************************************)
EXTENDS Integers, Sequences, FiniteSets, TLC

VARIABLES
    now,                \* local wall-clock time [day, hour, minute]
    tz,                 \* offset of local time from UTC, in hours (fixed)
    isAgentLongActive,  \* usePersistentState 'agent_isLongActive'
    isAgentShortActive, \* usePersistentState 'agent_isShortActive'
    longVideoCadence,   \* usePersistentState 'agent_longVideoCadence'
    shortVideoCadence,  \* usePersistentState 'agent_shortVideoCadence'
    lastRuns,           \* usePersistentState 'agent_lastRuns': jobKey -> Date.now()
    jobsInProgress,     \* useState<string[]>: identifiers of running jobs
    agentStatusLong,    \* useState: display status of the long family
    agentStatusShort,   \* useState: display status of the short family
    closure,            \* the values captured by the current run of the effect
    jobTimer,           \* "none" | "startup" (setTimeout 10s) | "interval" (setInterval 30s)
    inFlight,           \* runner -> number of its promises still pending
    launched,           \* history: every run started by checkSchedule, in order
    tick,               \* history: what the last executed checkSchedule did
    nOps,               \* operator actions so far
    call,               \* one execution of callWithRetry: position, budget, history
    kit,                \* one run of generateAndSaveKit: position, calls, storage
    timers,             \* the timers of the effect at millisecond times: armed, fired
    archive,            \* Date.now(), concurrent runs at their save step, idb, history
    batch,              \* one run of runAutomatedLongVideoBatch: position, calls, kits
    form                \* ApiKeySelector: inputKey, error, the calls of onKeySelected

vars == <<now, tz, isAgentLongActive, isAgentShortActive, longVideoCadence,
          shortVideoCadence, lastRuns, jobsInProgress, agentStatusLong,
          agentStatusShort, closure, jobTimer,
          inFlight, launched, tick, nOps, call, kit, timers, archive, batch, form>>

\* The state of the service layer, which no step of the component touches
serviceVars == <<call, kit>>

\* The state followed by the detailed views of the timers, the history, the
\* long batch and the key form, which the steps of the other views leave alone
auxVars == <<timers, archive, batch, form>>

\* The state of the component, which no step of the service layer touches
schedVars == <<now, tz, isAgentLongActive, isAgentShortActive, longVideoCadence,
               shortVideoCadence, lastRuns, jobsInProgress, agentStatusLong,
               agentStatusShort, closure, jobTimer,
               inFlight, launched, tick, nOps>>

-----------------------------------------------------------------------------
(* Bounds of the model *)

LastDay == 1        \* local days 1..LastDay
MaxLaunches == 3    \* runs started by checkSchedule
MaxOps == 1         \* operator actions (toggles, cadence changes)

TimeZones == {-3, 0, 9}
ClockHours == {6, 9, 10, 12, 18, 21}
ClockMinutes == {0, 59}

-----------------------------------------------------------------------------
(* Schedule tables *)

schedules ==
    [pt |-> [long |-> <<6, 12, 18>>, short |-> <<9, 12, 18>>],
     en |-> [long |-> <<7, 13, 19>>, short |-> <<9, 12, 18>>],
     es |-> [long |-> <<8, 14, 20>>, short |-> <<9, 12, 18>>]]

\* Mutant: the track of en is staggered by 30 minutes
offsetsEnLater == [pt |-> 0, en |-> 30, es |-> 40]

offsets == [pt |-> 0, en |-> 20, es |-> 40]

catchUpWindow == 3

ShortLangs == <<"pt", "en", "es">>

Min(a, b) == IF a < b THEN a ELSE b

\* Mutant: the whole array, whatever the cadence
SliceAll(s, n) == s

\* Array.prototype.slice(0, n) for n >= 0
Slice(s, n) == SubSeq(s, 1, Min(n, Len(s)))

-----------------------------------------------------------------------------
(* Dates *)

MinutesPerDay == 24 * 60

LocalMinutes(t) == (t.day * 24 + t.hour) * 60 + t.minute

\* Date.getTime() / Date.now(): an instant, independent of the time zone
GetTime(t) == LocalMinutes(t) - tz * 60

\* toISOString().split('T')[0]: the calendar date of the instant in UTC
ISODate(t) == GetTime(t) \div MinutesPerDay

\* new Date(now); setDate(getDate() + d): same local time of day, d days on
AddDays(t, d) == [t EXCEPT !.day = t.day + d]

\* new Date(checkDate); setHours(hour, minute, 0, 0)
SetHours(t, hour, minute) == [t EXCEPT !.hour = hour, !.minute = minute]

-----------------------------------------------------------------------------
(* Job keys and the ledger *)

\* `${todayStr}_pt_long_batch_${hour}:${minute}`
LongJobKey(todayStr, hour, minute) == <<todayStr, "pt", "long_batch", hour, minute>>

\* `${todayStr}_${lang}_short_${hour}:${minute}`
ShortJobKey(todayStr, lang, hour, minute) == <<todayStr, lang, "short", hour, minute>>

\* A slot of the schedule: [lang, type, hour, minute]
JobKeyOf(todayStr, s) ==
    IF s.type = "long"
    THEN LongJobKey(todayStr, s.hour, s.minute)
    ELSE ShortJobKey(todayStr, s.lang, s.hour, s.minute)

\* lastRuns[jobKey] read as a condition: undefined and 0 are falsy
HasRun(runs, jobKey) == jobKey \in DOMAIN runs /\ runs[jobKey] # 0

\* Mutant: the spread of prev is missing
MarkRunNoSpread(prev, jobKey, when) == [k \in {jobKey} |-> when]

\* prev => ({ ...prev, [jobKey]: Date.now() })
MarkRun(prev, jobKey, when) ==
    [k \in DOMAIN prev \cup {jobKey} |-> IF k = jobKey THEN when ELSE prev[k]]

RECURSIVE MarkRuns(_, _, _)
MarkRuns(prev, jobKeys, when) ==
    IF jobKeys = <<>> THEN prev
    ELSE MarkRuns(MarkRun(prev, Head(jobKeys), when), Tail(jobKeys), when)

-----------------------------------------------------------------------------
(* Slots of the schedule, in the order the loops visit them *)

\* Mutant: the long schedules of all three tracks are consulted
RECURSIVE LongSlotsOfTracks(_, _)
LongSlotsOfTracks(langs, cadence) ==
    IF langs = <<>> THEN <<>>
    ELSE LET hours == SubSeq(schedules[Head(langs)].long, 1, cadence)
         IN [i \in 1 .. Len(hours) |->
                [lang |-> "pt", type |-> "long", hour |-> hours[i],
                 minute |-> offsets[Head(langs)]]]
                \o LongSlotsOfTracks(Tail(langs), cadence)

LongSlotsOfAllTracks(cadence) == LongSlotsOfTracks(<<"pt", "en", "es">>, cadence)

\* schedules['pt'].long.slice(0, cadence), minute offsets['pt']
LongSlots(cadence) ==
    LET hours == Slice(schedules["pt"].long, cadence)
    IN [i \in 1 .. Len(hours) |->
          [lang |-> "pt", type |-> "long", hour |-> hours[i], minute |-> offsets["pt"]]]

\* schedules[lang].short.slice(0, cadence), minute offsets[lang]
ShortSlotsOf(lang, cadence) ==
    LET hours == Slice(schedules[lang].short, cadence)
    IN [i \in 1 .. Len(hours) |->
          [lang |-> lang, type |-> "short", hour |-> hours[i], minute |-> offsets[lang]]]

\* for (const lang of ['pt', 'en', 'es']) for (const hour of scheduleHours)
ShortSlots(cadence) ==
    ShortSlotsOf(ShortLangs[1], cadence) \o ShortSlotsOf(ShortLangs[2], cadence)
        \o ShortSlotsOf(ShortLangs[3], cadence)

-----------------------------------------------------------------------------
(* checkSchedule: which slots it starts *)

\* Mutant: the catch-up rule has no upper end
IsTimeUnbounded(hour, minute, currentHour, currentMinute) ==
    \/ (currentHour = hour /\ currentMinute >= minute)
    \/ currentHour > hour

\* Mutant: the catch-up test ends one hour early (< for <=)
IsTimeShortWindow(hour, minute, currentHour, currentMinute) ==
    \/ currentHour = hour /\ currentMinute >= minute
    \/ currentHour > hour /\ currentHour < hour + catchUpWindow

\* Mutant: the minute is checked again in the last hour of the window
IsTimeMinuteChecked(hour, minute, currentHour, currentMinute) ==
    \/ currentHour = hour /\ currentMinute >= minute
    \/ currentHour > hour /\ currentHour < hour + catchUpWindow
    \/ currentHour = hour + catchUpWindow /\ currentMinute <= minute

IsTime(hour, minute, currentHour, currentMinute) ==
    \/ currentHour = hour /\ currentMinute >= minute
    \/ currentHour > hour /\ currentHour <= hour + catchUpWindow

\* Mutant: nothing is due while a job is in progress
IsDueWhenIdle(s, c, t) ==
    /\ c.jobsInProgress = <<>>
    /\ IsTime(s.hour, s.minute, t.hour, t.minute)
    /\ ~HasRun(c.lastRuns, JobKeyOf(ISODate(t), s))

\* Mutant: the ledger is not consulted
IsDueIgnoringLedger(s, c, t) == IsTime(s.hour, s.minute, t.hour, t.minute)

\* isTime && !lastRuns[jobKey], with the key of today's ISO date
IsDue(s, c, t) ==
    /\ IsTime(s.hour, s.minute, t.hour, t.minute)
    /\ ~HasRun(c.lastRuns, JobKeyOf(ISODate(t), s))

\* Mutant: a family with a job in progress is not visited
VisitedSlotsOfIdle(c) ==
    LET Busy(type) == \E i \in 1 .. Len(c.jobsInProgress) : c.jobsInProgress[i][2] = type
    IN (IF c.isAgentLongActive /\ ~Busy("long")
        THEN LongSlots(c.longVideoCadence) ELSE <<>>)
           \o (IF c.isAgentShortActive /\ ~Busy("short")
               THEN ShortSlots(c.shortVideoCadence) ELSE <<>>)

\* Mutant: the loops do not test the active flags
VisitedSlotsOfAll(c) == LongSlots(c.longVideoCadence) \o ShortSlots(c.shortVideoCadence)

\* The slots checkSchedule visits: the long loop, then the short loops
VisitedSlots(c) ==
    (IF c.isAgentLongActive THEN LongSlots(c.longVideoCadence) ELSE <<>>)
        \o (IF c.isAgentShortActive THEN ShortSlots(c.shortVideoCadence) ELSE <<>>)

\* The slots checkSchedule starts at time t, in order
StartedSlots(c, t) ==
    LET Due(s) == IsDue(s, c, t) IN SelectSeq(VisitedSlots(c), Due)

-----------------------------------------------------------------------------
(* findNextLongBatchJob / findNextShortJob: the next pending slot shown *)

\* let closestJob = { time: Infinity, details: '' }
Infinity == (LastDay + 4) * MinutesPerDay

NoJob == [time |-> Infinity, details |-> <<>>, jobKey |-> <<>>, slot |-> <<>>, day |-> 0]

\* The candidates of day d, in loop order: jobKey is built from the ISO date
\* of checkDate, jobTime from checkDate's local calendar day
DayJobs(slots, d, t) ==
    LET checkDate == AddDays(t, d)
        todayStr == ISODate(checkDate)
    IN [i \in 1 .. Len(slots) |->
          [slot |-> slots[i],
           jobKey |-> JobKeyOf(todayStr, slots[i]),
           jobTime |-> SetHours(checkDate, slots[i].hour, slots[i].minute)]]

\* Mutant: lastRuns is not consulted
ConsiderIgnoringLedger(closestJob, job, langLabel, c, t) ==
    IF /\ GetTime(job.jobTime) > GetTime(t)
       /\ GetTime(job.jobTime) < closestJob.time
    THEN [time |-> GetTime(job.jobTime),
          details |-> <<langLabel, job.jobTime.hour, job.jobTime.minute>>,
          jobKey |-> job.jobKey,
          slot |-> job.slot,
          day |-> job.jobTime.day]
    ELSE closestJob

\* Mutant: the candidate is not compared with the closest so far
ConsiderLatest(closestJob, job, langLabel, c, t) ==
    IF /\ GetTime(job.jobTime) > GetTime(t)
       /\ ~HasRun(c.lastRuns, job.jobKey)
    THEN [time |-> GetTime(job.jobTime),
          details |-> <<langLabel, job.jobTime.hour, job.jobTime.minute>>,
          jobKey |-> job.jobKey,
          slot |-> job.slot,
          day |-> job.jobTime.day]
    ELSE closestJob

\* The body of the innermost loop: keep the candidate if it is in the future,
\* nearer than the closest so far, and not in lastRuns.  details carries what
\* the status line shows: the language label and the time of day.  jobKey,
\* slot and day are not part of the program's value: they record which
\* candidate the details were taken from.
Consider(closestJob, job, langLabel, c, t) ==
    IF /\ GetTime(job.jobTime) > GetTime(t)
       /\ GetTime(job.jobTime) < closestJob.time
       /\ ~HasRun(c.lastRuns, job.jobKey)
    THEN [time |-> GetTime(job.jobTime),
          details |-> <<langLabel, job.jobTime.hour, job.jobTime.minute>>,
          jobKey |-> job.jobKey,
          slot |-> job.slot,
          day |-> job.jobTime.day]
    ELSE closestJob

\* The loop over the candidates, from the i-th on
RECURSIVE ConsiderFrom(_, _, _, _, _, _)
ConsiderFrom(closestJob, jobs, i, langLabel, c, t) ==
    IF i > Len(jobs) THEN closestJob
    ELSE LET next == Consider(closestJob, jobs[i], langLabel, c, t)
         IN ConsiderFrom(next, jobs, i + 1, langLabel, c, t)

ConsiderAll(closestJob, jobs, langLabel, c, t) ==
    ConsiderFrom(closestJob, jobs, 1, langLabel, c, t)

findNextLongBatchJob(cadence, c, t) ==
    LET slots == LongSlots(cadence)
        today == ConsiderAll(NoJob, DayJobs(slots, 0, t), "PT, EN, ES", c, t)
    IN IF today.time # Infinity THEN today  \* break
       ELSE ConsiderAll(today, DayJobs(slots, 1, t), "PT, EN, ES", c, t)

\* lang.toUpperCase()
ToUpperCase(lang) == CASE lang = "pt" -> "PT" [] lang = "en" -> "EN" [] lang = "es" -> "ES"

RECURSIVE ShortScan(_, _, _, _, _)
ShortScan(closestJob, langs, cadence, c, t) ==
    IF langs = <<>> THEN closestJob
    ELSE LET lang == Head(langs)
             slots == ShortSlotsOf(lang, cadence)
             d0 == ConsiderAll(closestJob, DayJobs(slots, 0, t), ToUpperCase(lang), c, t)
             d1 == ConsiderAll(d0, DayJobs(slots, 1, t), ToUpperCase(lang), c, t)
         IN ShortScan(d1, Tail(langs), cadence, c, t)

findNextShortJob(cadence, c, t) == ShortScan(NoJob, ShortLangs, cadence, c, t)

-----------------------------------------------------------------------------
(* updateStatuses *)

\* Job identifiers `${lang}-${type}` are pairs <<lang, type>>
JobId(lang, type) == <<lang, type>>

LongJobIds == <<JobId("pt", "long"), JobId("en", "long"), JobId("es", "long")>>

\* job.endsWith('-long') / job.endsWith('-short')
EndsWith(job, type) == job[2] = type

\* jobsInProgress.filter(job => job.endsWith('-short')).map(job => job.split('-')[0].toUpperCase())
RunningShortJobs(jobs) ==
    LET IsShort(job) == EndsWith(job, "short")
        short == SelectSeq(jobs, IsShort)
    IN [i \in 1 .. Len(short) |-> ToUpperCase(short[i][1])]

\* The status of a family: running, idle with the next job (NoJob for the
\* '...' placeholder), or disabled
StatusLong(c, t) ==
    IF \E i \in 1 .. Len(c.jobsInProgress) : EndsWith(c.jobsInProgress[i], "long")
    THEN [st |-> "running", lang |-> <<"PT, EN, ES">>, next |-> NoJob]
    ELSE IF c.isAgentLongActive
    THEN [st |-> "idle", lang |-> <<>>, next |-> findNextLongBatchJob(c.longVideoCadence, c, t)]
    ELSE [st |-> "disabled", lang |-> <<>>, next |-> NoJob]

StatusShort(c, t) ==
    IF Len(RunningShortJobs(c.jobsInProgress)) > 0
    THEN [st |-> "running", lang |-> RunningShortJobs(c.jobsInProgress), next |-> NoJob]
    ELSE IF c.isAgentShortActive
    THEN [st |-> "idle", lang |-> <<>>, next |-> findNextShortJob(c.shortVideoCadence, c, t)]
    ELSE [st |-> "disabled", lang |-> <<>>, next |-> NoJob]


-----------------------------------------------------------------------------
(* The component's state and the scheduling effect *)

\* The values one render of the component holds, as the effect's closures
\* capture them
Render(longActive, shortActive, longCadence, shortCadence, runs, jobs) ==
    [isAgentLongActive |-> longActive,
     isAgentShortActive |-> shortActive,
     longVideoCadence |-> longCadence,
     shortVideoCadence |-> shortCadence,
     lastRuns |-> runs,
     jobsInProgress |-> jobs]

\* Mutant: longVideoCadence is missing from the dependency array
EffectDepsNoCadence ==
    {"isAgentLongActive", "isAgentShortActive", "shortVideoCadence", "lastRuns",
     "jobsInProgress"}

\* The dependency array of the effect, without the entries that never change
\* identity (setLastRuns, the two runners, t)
EffectDeps ==
    {"isAgentLongActive", "isAgentShortActive", "longVideoCadence",
     "shortVideoCadence", "lastRuns", "jobsInProgress"}

\* One commit of React after the state named in `touched` got new values.
\* When a dependency changed, the cleanup of the previous run of the effect
\* clears its timers and the effect runs again over the new render `new`:
\* updateStatuses(), a new status interval, and a new startup timeout when a
\* family is active.  Otherwise the timers stay as the caller leaves them.
Commit(touched, new, keptTimer) ==
    IF touched \cap EffectDeps # {}
    THEN /\ closure' = new
         /\ agentStatusLong' = StatusLong(new, now)
         /\ agentStatusShort' = StatusShort(new, now)
         /\ jobTimer' = IF new.isAgentLongActive \/ new.isAgentShortActive
                        THEN "startup" ELSE "none"
    ELSE /\ closure' = closure
         /\ agentStatusLong' = agentStatusLong
         /\ agentStatusShort' = agentStatusShort
         /\ jobTimer' = keptTimer

Runners == {"long", "pt", "en", "es"}

\* Which runner a slot starts: runAutomatedLongVideoBatch or
\* runAutomatedShortVideoJob(lang)
RunnerOf(s) == IF s.type = "long" THEN "long" ELSE s.lang

\* The identifiers a runner adds to jobsInProgress when it starts
JobIdsOf(runner) ==
    IF runner = "long" THEN LongJobIds ELSE <<JobId(runner, "short")>>

\* Mutant: the runner is started before the key is marked
SlotEffectsRunFirst(s, jobKey) ==
    <<[op |-> "run", slot |-> s, jobKey |-> jobKey],
      [op |-> "setLastRuns", slot |-> s, jobKey |-> jobKey]>>

\* Mutant: the runner is called twice
SlotEffectsRunTwice(s, jobKey) ==
    <<[op |-> "setLastRuns", slot |-> s, jobKey |-> jobKey],
      [op |-> "run", slot |-> s, jobKey |-> jobKey],
      [op |-> "run", slot |-> s, jobKey |-> jobKey]>>

\* What checkSchedule does for one due slot, in statement order
SlotEffects(s, jobKey) ==
    <<[op |-> "setLastRuns", slot |-> s, jobKey |-> jobKey],
      [op |-> "run", slot |-> s, jobKey |-> jobKey]>>

RECURSIVE SlotsEffects(_, _)
SlotsEffects(slots, todayStr) ==
    IF slots = <<>> THEN <<>>
    ELSE SlotEffects(Head(slots), JobKeyOf(todayStr, Head(slots)))
             \o SlotsEffects(Tail(slots), todayStr)

\* Everything one call of checkSchedule does, in order
checkSchedule(c, t) == SlotsEffects(StartedSlots(c, t), ISODate(t))

IsMark(e) == e.op = "setLastRuns"
IsRun(e) == e.op = "run"

RECURSIVE JobIdsOfRuns(_)
JobIdsOfRuns(runs) ==
    IF runs = <<>> THEN <<>>
    ELSE JobIdsOf(RunnerOf(Head(runs).slot)) \o JobIdsOfRuns(Tail(runs))

\* How many of the runs start the runner r
Starts(runs, r) == Cardinality({i \in 1 .. Len(runs) : RunnerOf(runs[i].slot) = r})


-----------------------------------------------------------------------------
(* The timers of the scheduling effect, at millisecond times *)

\* setTimeout(..., 10000), setInterval(checkSchedule, 30000),
\* setInterval(updateStatuses, 60000)
startupDelay == 10000

jobInterval == 30000

statusInterval == 60000

\* No timer has fired since time last passed
NoFired == [n |-> 0, kind |-> "none", at |-> 0, timerRun |-> 0, currentRun |-> 0,
            ranAt |-> 0, active |-> FALSE]

\* Before the component mounts
Unmounted == [time |-> 0, run |-> 0, ranAt |-> 0, active |-> FALSE, armed |-> {},
              fired |-> NoFired]

\* Mutant: the cleanup leaves the job interval armed
CleanupKeepingJobInterval(tm) ==
    [tm EXCEPT !.armed = {a \in @ : a.run # tm.run \/ a.kind = "job"}]

\* The cleanup of the current run of the effect: clearInterval(statusInterval),
\* clearTimeout(startupTimeoutId), clearInterval(jobIntervalId)
Cleanup(tm) == [tm EXCEPT !.armed = {a \in @ : a.run # tm.run}]

\* The body of the effect from its timers on: the status interval, and the
\* startup timeout when a family is active
EffectRuns(tm, active) ==
    LET run == tm.run + 1
    IN [tm EXCEPT
          !.run = run,
          !.ranAt = tm.time,
          !.active = active,
          !.armed = @ \cup {[kind |-> "status", run |-> run, due |-> tm.time + statusInterval]}
                      \cup (IF active
                            THEN {[kind |-> "startup", run |-> run,
                                   due |-> tm.time + startupDelay]}
                            ELSE {})]

-----------------------------------------------------------------------------
(* The history collection and the blob store *)

\* No run has reached its save step: nothing stored, the history empty
NoArchive == [ms |-> 0, runs |-> <<>>, blobs |-> {}, history |-> <<>>]

\* Mutant: the comparator orders by timestamp ascending
CompareAscending(a, b) == a.timestamp - b.timestamp

\* (a, b) => b.timestamp - a.timestamp
Compare(a, b) == b.timestamp - a.timestamp

\* Array.prototype.sort (stable): x goes before the first element that the
\* comparator puts after it
RECURSIVE InsertSorted(_, _)
InsertSorted(x, sorted) ==
    IF sorted = <<>> THEN <<x>>
    ELSE IF Compare(Head(sorted), x) > 0 THEN <<x>> \o sorted
    ELSE <<Head(sorted)>> \o InsertSorted(x, Tail(sorted))

RECURSIVE Sort(_)
Sort(items) ==
    IF items = <<>> THEN <<>>
    ELSE InsertSorted(items[Len(items)], Sort(SubSeq(items, 1, Len(items) - 1)))

\* `${Date.now()}-${jobLang}-${jobType}`
ArtifactId(ms, jobLang, jobType) == <<ms, jobLang, jobType>>

\* `history_audio_${id}`, `history_image_${id}`
BlobKeys(id) == {<<"history_audio", id>>, <<"history_image", id>>}

-----------------------------------------------------------------------------
(* runAutomatedLongVideoBatch *)

\* No long batch is running
NoBatch == [pc |-> "idle", lang |-> 0, calls |-> <<>>, kits |-> <<>>, artifacts |-> <<>>]

\* The member languages of the batch, in the order of the calls
BatchLangs == <<"pt", "en", "es">>

-----------------------------------------------------------------------------
(* ApiKeySelector *)

\* useState(''), useState(''): the form as first rendered; selected lists the
\* arguments of the calls of onKeySelected
NoForm == [inputKey |-> <<>>, error |-> "", selected |-> <<>>, submits |-> 0]

-----------------------------------------------------------------------------
(* Initial state: the component mounted on a fresh installation *)

Clock == [day : 1 .. LastDay, hour : ClockHours, minute : ClockMinutes]

NoTick == [n |-> 0, at |-> [day |-> 0, hour |-> 0, minute |-> 0],
           c |-> Render(FALSE, FALSE, 0, 0, <<>>, <<>>), effects |-> <<>>]

\* No callWithRetry is executing
NoCall == [pc |-> "idle", retries |-> 0, delay |-> 0, log |-> <<>>, waits |-> <<>>,
           settled |-> <<>>]

\* No generateAndSaveKit is running; nothing of it is stored
NoKit == [pc |-> "idle", jobType |-> "none", shared |-> FALSE, steps |-> <<>>,
          outstanding |-> {}, prayer |-> "none", post |-> "none",
          writes |-> [audio |-> "none", image |-> "none"], history |-> <<>>]

\* The state right after the component mounted at local time t with the
\* persisted values given: the effect has run once
Mounted(t, longActive, shortActive, longCadence, shortCadence, runs) ==
    /\ now = t
    /\ isAgentLongActive = longActive
    /\ isAgentShortActive = shortActive
    /\ longVideoCadence = longCadence
    /\ shortVideoCadence = shortCadence
    /\ lastRuns = runs
    /\ jobsInProgress = <<>>
    /\ closure = Render(longActive, shortActive, longCadence, shortCadence, runs, <<>>)
    /\ agentStatusLong = StatusLong(closure, t)
    /\ agentStatusShort = StatusShort(closure, t)
    /\ jobTimer = IF longActive \/ shortActive THEN "startup" ELSE "none"
    /\ inFlight = [r \in Runners |-> 0]
    /\ launched = <<>>
    /\ tick = NoTick
    /\ nOps = 0
    /\ call = NoCall
    /\ kit = NoKit
    /\ timers = EffectRuns(Unmounted, longActive \/ shortActive)
    /\ archive = NoArchive
    /\ batch = NoBatch
    /\ form = NoForm

\* usePersistentState defaults: both families on, cadence 3, no runs
Init ==
    /\ tz \in TimeZones
    /\ Mounted([day |-> 1, hour |-> 0, minute |-> 0], TRUE, TRUE, 3, 3, <<>>)

-----------------------------------------------------------------------------
(* Actions *)

\* Wall-clock time passes
AdvanceClock ==
    /\ \E t \in Clock : LocalMinutes(t) > LocalMinutes(now) /\ now' = t
    /\ tick' = NoTick
    /\ UNCHANGED <<serviceVars, auxVars, tz, isAgentLongActive, isAgentShortActive, longVideoCadence,
                   shortVideoCadence, lastRuns, jobsInProgress, agentStatusLong,
                   agentStatusShort, closure, jobTimer, inFlight, launched, nOps>>

\* The startup timeout or the 30s interval fires: checkSchedule() over the
\* closure of the effect run that armed the timer.  Each setLastRuns updater is
\* applied to the current state, each started runner appends its identifiers
\* to jobsInProgress before its first await, and React commits.
CheckSchedule ==
    /\ jobTimer # "none"
    /\ LET effects == checkSchedule(closure, now)
           marks == SelectSeq(effects, IsMark)
           runs == SelectSeq(effects, IsRun)
           newRuns == MarkRuns(lastRuns, [i \in 1 .. Len(marks) |-> marks[i].jobKey],
                               GetTime(now))
           newJobs == jobsInProgress \o JobIdsOfRuns(runs)
       IN /\ lastRuns' = newRuns
          /\ jobsInProgress' = newJobs
          /\ inFlight' = [r \in Runners |-> inFlight[r] + Starts(runs, r)]
          /\ launched' = launched \o
                 [i \in 1 .. Len(runs) |->
                     [day |-> now.day, slot |-> runs[i].slot, jobKey |-> runs[i].jobKey]]
          /\ tick' = [n |-> 1, at |-> now, c |-> closure, effects |-> effects]
          /\ Commit((IF marks # <<>> THEN {"lastRuns"} ELSE {})
                        \cup (IF runs # <<>> THEN {"jobsInProgress"} ELSE {}),
                    Render(isAgentLongActive, isAgentShortActive, longVideoCadence,
                           shortVideoCadence, newRuns, newJobs),
                    "interval")
    /\ UNCHANGED <<serviceVars, auxVars, now, tz, isAgentLongActive, isAgentShortActive, longVideoCadence,
                   shortVideoCadence, nOps>>

\* The 60s status interval fires: updateStatuses() over the effect's closure
StatusTick ==
    /\ agentStatusLong' = StatusLong(closure, now)
    /\ agentStatusShort' = StatusShort(closure, now)
    /\ UNCHANGED <<serviceVars, auxVars, now, tz, isAgentLongActive, isAgentShortActive, longVideoCadence,
                   shortVideoCadence, lastRuns, jobsInProgress, closure, jobTimer,
                   inFlight, launched, tick, nOps>>

\* Mutant: the finally block leaves the running set as it is
WithoutJobsOfNothing(jobs, r) == jobs

\* prev.filter(job => !jobIdentifiers.includes(job)) / prev.filter(job => job !== jobIdentifier)
WithoutJobsOf(jobs, r) ==
    LET ids == {JobIdsOf(r)[i] : i \in 1 .. Len(JobIdsOf(r))}
        Keep(job) == job \notin ids
    IN SelectSeq(jobs, Keep)

\* A runner's promise settles, fulfilled or rejected: its finally block
\* filters its identifiers out of jobsInProgress
RunEnds(r) ==
    /\ inFlight[r] > 0
    /\ inFlight' = [inFlight EXCEPT ![r] = @ - 1]
    /\ LET newJobs == WithoutJobsOf(jobsInProgress, r)
       IN /\ jobsInProgress' = newJobs
          /\ Commit({"jobsInProgress"},
                    Render(isAgentLongActive, isAgentShortActive, longVideoCadence,
                           shortVideoCadence, lastRuns, newJobs),
                    jobTimer)
    /\ UNCHANGED <<serviceVars, auxVars, now, tz, isAgentLongActive, isAgentShortActive, longVideoCadence,
                   shortVideoCadence, lastRuns, launched, tick, nOps>>

LongBatchEnds == RunEnds("long")

ShortJobEnds == \E lang \in {"pt", "en", "es"} : RunEnds(lang)

\* Mutant: switching the long family also empties lastRuns
ToggleLongClearingLedger ==
    /\ nOps < MaxOps
    /\ nOps' = nOps + 1
    /\ isAgentLongActive' = ~isAgentLongActive
    /\ lastRuns' = <<>>
    /\ Commit({"isAgentLongActive", "lastRuns"},
              Render(~isAgentLongActive, isAgentShortActive, longVideoCadence,
                     shortVideoCadence, <<>>, jobsInProgress),
              jobTimer)
    /\ UNCHANGED <<serviceVars, auxVars, now, tz, isAgentShortActive, longVideoCadence, shortVideoCadence,
                   jobsInProgress, inFlight, launched, tick>>

\* The operator flips the toggle of a family: setIsActive(!isActive)
ToggleLong ==
    /\ nOps < MaxOps
    /\ nOps' = nOps + 1
    /\ isAgentLongActive' = ~isAgentLongActive
    /\ Commit({"isAgentLongActive"},
              Render(~isAgentLongActive, isAgentShortActive, longVideoCadence,
                     shortVideoCadence, lastRuns, jobsInProgress),
              jobTimer)
    /\ UNCHANGED <<serviceVars, auxVars, now, tz, isAgentShortActive, longVideoCadence, shortVideoCadence,
                   lastRuns, jobsInProgress, inFlight, launched, tick>>

\* Mutant: switching the short family cancels the pipeline run in flight
ToggleShortCancelling ==
    /\ nOps < MaxOps
    /\ nOps' = nOps + 1
    /\ isAgentShortActive' = ~isAgentShortActive
    /\ kit' = IF kit.pc \in {"idle", "done", "failed"} THEN kit
              ELSE [kit EXCEPT !.pc = "failed", !.outstanding = {}]
    /\ Commit({"isAgentShortActive"},
              Render(isAgentLongActive, ~isAgentShortActive, longVideoCadence,
                     shortVideoCadence, lastRuns, jobsInProgress),
              jobTimer)
    /\ UNCHANGED <<call, auxVars, now, tz, isAgentLongActive, longVideoCadence, shortVideoCadence,
                   lastRuns, jobsInProgress, inFlight, launched, tick>>

ToggleShort ==
    /\ nOps < MaxOps
    /\ nOps' = nOps + 1
    /\ isAgentShortActive' = ~isAgentShortActive
    /\ Commit({"isAgentShortActive"},
              Render(isAgentLongActive, ~isAgentShortActive, longVideoCadence,
                     shortVideoCadence, lastRuns, jobsInProgress),
              jobTimer)
    /\ UNCHANGED <<serviceVars, auxVars, now, tz, isAgentLongActive, longVideoCadence, shortVideoCadence,
                   lastRuns, jobsInProgress, inFlight, launched, tick>>

\* The operator picks another option of the cadence select (disabled while
\* the family is off): setCadence(Number(e.target.value))
SetLongCadence ==
    /\ nOps < MaxOps
    /\ isAgentLongActive
    /\ \E v \in {3, 2, 1} :
          /\ v # longVideoCadence
          /\ longVideoCadence' = v
          /\ Commit({"longVideoCadence"},
                    Render(isAgentLongActive, isAgentShortActive, v,
                           shortVideoCadence, lastRuns, jobsInProgress),
                    jobTimer)
    /\ nOps' = nOps + 1
    /\ UNCHANGED <<serviceVars, auxVars, now, tz, isAgentLongActive, isAgentShortActive, shortVideoCadence,
                   lastRuns, jobsInProgress, inFlight, launched, tick>>

SetShortCadence ==
    /\ nOps < MaxOps
    /\ isAgentShortActive
    /\ \E v \in {3, 2, 1, 0} :
          /\ v # shortVideoCadence
          /\ shortVideoCadence' = v
          /\ Commit({"shortVideoCadence"},
                    Render(isAgentLongActive, isAgentShortActive, longVideoCadence,
                           v, lastRuns, jobsInProgress),
                    jobTimer)
    /\ nOps' = nOps + 1
    /\ UNCHANGED <<serviceVars, auxVars, now, tz, isAgentLongActive, isAgentShortActive, longVideoCadence,
                   lastRuns, jobsInProgress, inFlight, launched, tick>>

\* The page is reloaded: the persisted state (flags, cadences, lastRuns) is
\* read back, the rest starts afresh, pending jobs are gone with the old page
\* and the effect runs for the first time
Restart ==
    /\ jobsInProgress' = <<>>
    /\ inFlight' = [r \in Runners |-> 0]
    /\ Commit(EffectDeps,
              Render(isAgentLongActive, isAgentShortActive, longVideoCadence,
                     shortVideoCadence, lastRuns, <<>>),
              jobTimer)
    /\ UNCHANGED <<serviceVars, auxVars, now, tz, isAgentLongActive, isAgentShortActive, longVideoCadence,
                   shortVideoCadence, lastRuns, launched, tick, nOps>>

\* checkSchedule as long as the model's bound on started runs allows
BoundedCheckSchedule == CheckSchedule /\ Len(launched') <= MaxLaunches

Next ==
    \/ AdvanceClock
    \/ BoundedCheckSchedule
    \/ StatusTick
    \/ LongBatchEnds
    \/ ShortJobEnds
    \/ ToggleLong
    \/ ToggleShort
    \/ SetLongCadence
    \/ SetShortCadence
    \/ Restart

Spec == Init /\ [][Next]_vars


-----------------------------------------------------------------------------
(* The due rule on its own: one checkSchedule at any minute of a day, over *)
(* an empty ledger or a ledger that holds the key of one slot of today     *)

DayMinutes == [day : {1}, hour : 0 .. 23, minute : 0 .. 59]

AllSlots == LongSlots(3) \o ShortSlots(3)

OneRun(t, i) == MarkRun(<<>>, JobKeyOf(ISODate(t), AllSlots[i]), GetTime(t) - 1)

InitDue ==
    /\ tz \in TimeZones
    /\ \E t \in DayMinutes :
          \E runs \in {<<>>} \cup {OneRun(t, i) : i \in 1 .. Len(AllSlots)} :
              Mounted(t, TRUE, TRUE, 3, 3, runs)

\* The first checkSchedule after the mount
FirstCheckSchedule == tick = NoTick /\ CheckSchedule

SpecDue == InitDue /\ [][FirstCheckSchedule]_vars


-----------------------------------------------------------------------------
(* The ledger update on its own: the updater of setLastRuns applied for the *)
(* first long slot of today at any time, also when the ledger holds its key *)

MarkConsumed ==
    /\ \E i \in 1 .. Len(LongSlots(1)) :
          LET s == LongSlots(1)[i]
              jobKey == JobKeyOf(ISODate(now), s)
              newRuns == MarkRun(lastRuns, jobKey, GetTime(now))
          IN /\ lastRuns' = newRuns
             /\ tick' = [n |-> 1, at |-> now, c |-> closure,
                         effects |-> <<[op |-> "setLastRuns", slot |-> s, jobKey |-> jobKey]>>]
             /\ Commit({"lastRuns"},
                       Render(isAgentLongActive, isAgentShortActive, longVideoCadence,
                              shortVideoCadence, newRuns, jobsInProgress),
                       jobTimer)
    /\ UNCHANGED <<serviceVars, auxVars, now, tz, isAgentLongActive, isAgentShortActive, longVideoCadence,
                   shortVideoCadence, jobsInProgress, inFlight, launched, nOps>>

SpecMark == Init /\ [][AdvanceClock \/ MarkConsumed]_vars

-----------------------------------------------------------------------------
(* The next-pending display on its own: the component mounted over any     *)
(* cadences and over a ledger that holds up to two long keys or one short  *)
(* key of the days around, then the clock and the status interval          *)

LedgerDays == 1 .. 2

SomeLongKeys == {JobKeyOf(d, LongSlots(3)[i]) : d \in LedgerDays, i \in 1 .. 3}

SomeShortKeys == {JobKeyOf(d, ShortSlots(3)[i]) : d \in LedgerDays, i \in 1 .. 9}

SomeLedgers ==
    {[k \in K |-> 1] : K \in {L \in SUBSET SomeLongKeys : Cardinality(L) <= 2}}
        \cup {[k \in {x} |-> 1] : x \in SomeShortKeys}

InitNext ==
    /\ tz \in TimeZones
    /\ \E longCadence \in {3, 2, 1}, shortCadence \in {3, 2, 1, 0}, runs \in SomeLedgers :
          Mounted([day |-> 1, hour |-> 0, minute |-> 0], TRUE, TRUE,
                  longCadence, shortCadence, runs)

SpecNext == InitNext /\ [][AdvanceClock \/ StatusTick]_vars

-----------------------------------------------------------------------------
(* callWithRetry: one execution with the default arguments.  The operation  *)
(* fn settles each invocation with a value or with an error; `at` numbers   *)
(* the invocation an outcome came from.  The fields status and code of an   *)
(* error hold "429" for the number 429 and "undefined" when absent.         *)

Statuses == {"429", "RESOURCE_EXHAUSTED", "500", "undefined"}

Codes == {"429", "undefined"}

Value(n) == [ok |-> TRUE, status |-> "undefined", code |-> "undefined", at |-> n]

Errors(n) == [ok : {FALSE}, status : Statuses, code : Codes, at : {n}]

\* Mutant: every error is taken for a rate-limit error
IsRateLimitAny(error) == TRUE

\* error?.status === 429 || error?.status === 'RESOURCE_EXHAUSTED' || error?.code === 429
IsRateLimit(error) ==
    error.status = "429" \/ error.status = "RESOURCE_EXHAUSTED" \/ error.code = "429"

\* Mutant: the budget test admits one more retry
CanRetryOnceMore(retries, error) == retries >= 0 /\ IsRateLimit(error)

\* retries > 0 && (rate-limit error)
CanRetry(retries, error) == retries > 0 /\ IsRateLimit(error)

\* Mutant: the delay is not doubled
NextDelaySame(delay) == delay

\* delay * 2
NextDelay(delay) == delay * 2

\* callWithRetry(fn): retries = 3, delay = 2000, and fn() is invoked
CallWithRetry ==
    /\ call.pc = "idle"
    /\ call' = [pc |-> "fn", retries |-> 3, delay |-> 2000, log |-> <<>>,
                waits |-> <<>>, settled |-> <<>>]
    /\ UNCHANGED <<schedVars, auxVars, kit>>

\* return await fn(): the invocation fulfils and its value is returned
FnFulfils ==
    /\ call.pc = "fn"
    /\ LET value == Value(Len(call.log) + 1)
       IN call' = [call EXCEPT !.pc = "resolved", !.log = Append(@, value),
                               !.settled = <<value>>]
    /\ UNCHANGED <<schedVars, auxVars, kit>>

\* catch (error): either the timeout of `delay` ms is armed, or the error is
\* thrown again
FnRejects ==
    /\ call.pc = "fn"
    /\ \E error \in Errors(Len(call.log) + 1) :
          IF CanRetry(call.retries, error)
          THEN call' = [call EXCEPT !.pc = "sleep", !.log = Append(@, error)]
          ELSE call' = [call EXCEPT !.pc = "rejected", !.log = Append(@, error),
                                    !.settled = <<error>>]
    /\ UNCHANGED <<schedVars, auxVars, kit>>

\* The timeout fires: callWithRetry(fn, retries - 1, delay * 2) invokes fn()
TimeoutFires ==
    /\ call.pc = "sleep"
    /\ call' = [call EXCEPT !.pc = "fn", !.retries = @ - 1, !.delay = NextDelay(@),
                            !.waits = Append(@, call.delay)]
    /\ UNCHANGED <<schedVars, auxVars, kit>>

NextRetry == CallWithRetry \/ FnFulfils \/ FnRejects \/ TimeoutFires

SpecRetry == Init /\ [][NextRetry]_vars

\* Every invocation of fn settles and every armed timeout fires
SpecRetryFair == SpecRetry /\ WF_vars(NextRetry)

RECURSIVE Sum(_)
Sum(s) == IF s = <<>> THEN 0 ELSE Head(s) + Sum(Tail(s))

RECURSIVE Pow2(_)
Pow2(n) == IF n = 0 THEN 1 ELSE 2 * Pow2(n - 1)

-----------------------------------------------------------------------------
(* generateAndSaveKit: one run.  A remote stage is one service function,    *)
(* that is one callWithRetry, which fulfils with a value, fulfils with an   *)
(* empty (falsy) value, or rejects.  idb.set stores the blob under its key  *)
(* or rejects.  kit.steps lists what the run started, in order.             *)

RemoteStages == {"prayer", "post", "speech", "prompt", "image"}

\* The function a stage calls
CallName(pc, jobType) ==
    CASE pc = "prayer" -> IF jobType = "long" THEN "generateGuidedPrayer"
                                              ELSE "generateShortPrayer"
      [] pc = "cooldown" -> "setTimeout"
      [] pc = "post" -> IF jobType = "long" THEN "generateYouTubeLongPost"
                                            ELSE "generateSocialMediaPost"
      [] pc = "speech" -> "generateSpeech"
      [] pc = "prompt" -> "createThumbnailPromptFromPost"
      [] pc = "image" -> "generateImageFromPrayer"
      [] pc = "store" -> "idb.set"
      [] pc = "done" -> "setHistory"

\* Mutant: the aspect ratio does not follow the job type
AspectRatioWide(jobType) == "16:9"

\* jobType === 'short' ? '9:16' : '16:9'
AspectRatioOf(jobType) == IF jobType = "short" THEN "9:16" ELSE "16:9"

\* The run moves on to stage pc: the call is issued (both idb.set calls at
\* once for "store"), or the history record is inserted for "done"
Enter(k, pc) ==
    [k EXCEPT !.pc = pc,
              !.steps = Append(@, [stage |-> CallName(pc, k.jobType),
                                   aspect |-> IF pc = "image" THEN AspectRatioOf(k.jobType)
                                                              ELSE "none"]),
              !.outstanding = IF pc \in RemoteStages THEN {pc} ELSE {},
              !.writes = IF pc = "store" THEN [audio |-> "pending", image |-> "pending"]
                                         ELSE @,
              !.history = IF pc = "done"
                          THEN <<[type |-> k.jobType, audioBlobKey |-> "audio",
                                  imageBlobKey |-> "image"]>> \o @
                          ELSE @]

\* throw: the run rejects
Abort(k) == [k EXCEPT !.pc = "failed", !.outstanding = {}]

\* Mutant: no cool down between the prayer and the post
AfterPrayerNoCooldown(k) == Enter(k, "post")

\* await new Promise(resolve => setTimeout(resolve, 1000))
AfterPrayer(k) == Enter(k, "cooldown")

\* if (!prayer || !post) throw; then generateSpeech
AfterPost(k) ==
    IF k.prayer = "empty" \/ k.post = "empty" THEN Abort(k) ELSE Enter(k, "speech")

\* if (!audioB64) throw; then the shared image or a fresh one
AfterSpeech(k, audioB64) ==
    IF audioB64 = "empty" THEN Abort(k)
    ELSE IF k.shared THEN Enter(k, "store")
    ELSE Enter(k, "prompt")

\* if (!imageB64) throw; then the blobs are stored
AfterImage(k, imageB64) ==
    IF imageB64 = "empty" THEN Abort(k) ELSE Enter(k, "store")

\* generateAndSaveKit(jobLang, jobType, theme, subthemes, sharedImageBlob?)
GenerateAndSaveKit ==
    /\ kit.pc = "idle"
    /\ \E jobType \in {"long", "short"}, shared \in BOOLEAN :
          kit' = Enter([kit EXCEPT !.jobType = jobType, !.shared = shared], "prayer")
    /\ UNCHANGED <<schedVars, auxVars, call>>

\* The awaited service function fulfils
RemoteFulfils ==
    /\ kit.pc \in RemoteStages
    /\ \E v \in {"value", "empty"} :
          kit' = CASE kit.pc = "prayer" -> AfterPrayer([kit EXCEPT !.prayer = v])
                   [] kit.pc = "post" -> AfterPost([kit EXCEPT !.post = v])
                   [] kit.pc = "speech" -> AfterSpeech(kit, v)
                   [] kit.pc = "prompt" -> Enter(kit, "image")
                   [] kit.pc = "image" -> AfterImage(kit, v)
    /\ UNCHANGED <<schedVars, auxVars, call>>

\* The awaited service function rejects: retry budget exhausted or an error
\* that is not retried
RemoteRejects ==
    /\ kit.pc \in RemoteStages
    /\ kit' = Abort(kit)
    /\ UNCHANGED <<schedVars, auxVars, call>>

\* The 1000 ms timeout fires
CooldownEnds ==
    /\ kit.pc = "cooldown"
    /\ kit' = Enter(kit, "post")
    /\ UNCHANGED <<schedVars, auxVars, call>>

\* One idb.set of Promise.all([idb.set(audio), idb.set(image)]) settles.
\* Promise.all rejects with the first rejection and fulfils when both are
\* stored; a write still pending after the rejection settles later.
WriteSettles ==
    /\ \E w \in {"audio", "image"}, ok \in BOOLEAN :
          /\ kit.writes[w] = "pending"
          /\ LET k == [kit EXCEPT !.writes[w] = IF ok THEN "stored" ELSE "failed"]
             IN kit' = IF kit.pc # "store" THEN k
                       ELSE IF ~ok THEN Abort(k)
                       ELSE IF k.writes.audio = "stored" /\ k.writes.image = "stored"
                       THEN Enter(k, "done")
                       ELSE k
    /\ UNCHANGED <<schedVars, auxVars, call>>

NextKit ==
    GenerateAndSaveKit \/ RemoteFulfils \/ RemoteRejects \/ CooldownEnds \/ WriteSettles

SpecKit == Init /\ [][NextKit]_vars

\* The blobs of the run that are in the store
StoredBlobs == {w \in {"audio", "image"} : kit.writes[w] = "stored"}

\* What a run without failure starts, in order
FullOrder(jobType, shared) ==
    <<CallName("prayer", jobType), "setTimeout", CallName("post", jobType), "generateSpeech">>
        \o (IF shared THEN <<>>
            ELSE <<"createThumbnailPromptFromPost", "generateImageFromPrayer">>)
        \o <<"idb.set", "setHistory">>

-----------------------------------------------------------------------------
(* One hour of the short family: the component mounted at some minute of   *)
(* local hour 9 over an empty ledger with the short cadence 2, then the    *)
(* checkSchedule timer, the status interval and the ends of the runs       *)

InitScenario ==
    /\ tz \in TimeZones
    /\ \E minute \in 0 .. 59, longActive \in BOOLEAN :
          Mounted([day |-> 1, hour |-> 9, minute |-> minute], longActive, TRUE, 3, 2, <<>>)

NextScenario == BoundedCheckSchedule \/ StatusTick \/ LongBatchEnds \/ ShortJobEnds

SpecScenario == InitScenario /\ [][NextScenario]_vars

-----------------------------------------------------------------------------
(* The scheduler over any persisted configuration: the component mounted   *)
(* with the flags and cadences an earlier session left, over an empty      *)
(* ledger                                                                  *)

InitConfig ==
    /\ tz \in TimeZones
    /\ \E longActive \in BOOLEAN, shortActive \in BOOLEAN,
          longCadence \in {3, 2, 1}, shortCadence \in {3, 2, 1, 0} :
          Mounted([day |-> 1, hour |-> 0, minute |-> 0], longActive, shortActive,
                  longCadence, shortCadence, <<>>)

NextConfig == AdvanceClock \/ BoundedCheckSchedule \/ ToggleLong \/ ToggleShort

SpecConfig == InitConfig /\ [][NextConfig]_vars

-----------------------------------------------------------------------------
(* A pipeline run next to the operator: a run of generateAndSaveKit is     *)
(* started for a family that is active (the runners are called by          *)
(* checkSchedule only), and the operator toggles and selects meanwhile     *)

\* A runner calls generateAndSaveKit
RunnerStartsKit ==
    /\ GenerateAndSaveKit
    /\ IF kit'.jobType = "long" THEN isAgentLongActive ELSE isAgentShortActive

NextOperator ==
    \/ RunnerStartsKit
    \/ RemoteFulfils
    \/ RemoteRejects
    \/ CooldownEnds
    \/ WriteSettles
    \/ ToggleLong
    \/ ToggleShort
    \/ SetLongCadence
    \/ SetShortCadence

SpecOperator == Init /\ [][NextOperator]_vars

-----------------------------------------------------------------------------
(* Properties *)

\* The runs the last checkSchedule started, and whether slot s is among them
TickRuns == SelectSeq(tick.effects, IsRun)

Started(s) == \E i \in 1 .. Len(tick.effects) :
                 tick.effects[i].op = "run" /\ tick.effects[i].slot = s

\* The key the last checkSchedule built for slot s
TickKey(s) == JobKeyOf(ISODate(tick.at), s)

\* Minutes since local midnight
MinuteOfDay(t) == t.hour * 60 + t.minute

\* C1: every occurrence (local day, language, type, hour, minute) is started
\* at most once over the whole run.
C1_AtMostOncePerSlot ==
    \A i, j \in 1 .. Len(launched) :
        (launched[i].day = launched[j].day /\ launched[i].slot = launched[j].slot)
            => i = j

\* C2: a checkSchedule never starts a slot whose key is in the ledger it reads.
C2_LedgerBlocksStart ==
    tick.n = 1 =>
        \A i \in 1 .. Len(TickRuns) : TickRuns[i].jobKey \notin DOMAIN tick.c.lastRuns

\* C2 witness: a checkSchedule ran inside the window of a visited slot whose
\* key was in the ledger.
C2_Witness ==
    /\ tick.n = 1
    /\ \E i \in 1 .. Len(VisitedSlots(tick.c)) :
          LET s == VisitedSlots(tick.c)[i]
          IN /\ IsTime(s.hour, s.minute, tick.at.hour, tick.at.minute)
             /\ TickKey(s) \in DOMAIN tick.c.lastRuns
             /\ ~Started(s)

SlotSix == [lang |-> "pt", type |-> "long", hour |-> 6, minute |-> 0]

C5_KeyOfOccurrence ==
    /\ \A i, j \in 1 .. Len(launched) :
          (launched[i].day = launched[j].day /\ launched[i].slot = launched[j].slot)
              <=> launched[i].jobKey = launched[j].jobKey
    /\ \A i \in 1 .. Len(launched) : launched[i].jobKey[1] = launched[i].day

\* C6: in a checkSchedule every start of a runner comes right after the
\* setLastRuns of the same key, and when the checkSchedule returns the key is in
\* lastRuns.
C6_MarkBeforeRun ==
    tick.n = 1 =>
        \A i \in 1 .. Len(tick.effects) :
            tick.effects[i].op = "run" =>
                /\ i > 1
                /\ tick.effects[i - 1].op = "setLastRuns"
                /\ tick.effects[i - 1].jobKey = tick.effects[i].jobKey
                /\ tick.effects[i].jobKey \in DOMAIN lastRuns

\* C6 witness: a checkSchedule that started two runners.
C6_Witness == tick.n = 1 /\ Len(TickRuns) >= 2


\* C7: the closure of the effect always holds the current ledger, flags and
\* cadences, so every checkSchedule decides on them; and the ledger the last
\* checkSchedule read lacked only the keys that checkSchedule marked itself.
C7_ClosureIsCurrent ==
    /\ closure.lastRuns = lastRuns
    /\ closure.isAgentLongActive = isAgentLongActive
    /\ closure.isAgentShortActive = isAgentShortActive
    /\ closure.longVideoCadence = longVideoCadence
    /\ closure.shortVideoCadence = shortVideoCadence
    /\ tick.n = 1 =>
          DOMAIN lastRuns = DOMAIN tick.c.lastRuns
                                \cup {TickRuns[i].jobKey : i \in 1 .. Len(TickRuns)}

\* C7 witness: a checkSchedule started a run over a ledger that an earlier
\* checkSchedule had marked and over a cadence the operator had changed.
C7_Witness ==
    /\ tick.n = 1
    /\ tick.c.lastRuns # <<>>
    /\ tick.c.longVideoCadence = 2
    /\ TickRuns # <<>>

\* C8: marking a key the ledger already holds changes nothing, neither the key
\* set nor the timestamp stored for the key.
C8_MarkTwiceIsNoOp ==
    [][(tick'.n = 1 /\ tick' # tick /\ tick'.effects[1].jobKey \in DOMAIN lastRuns)
           => lastRuns' = lastRuns]_vars

\* C9: a key in lastRuns stays in lastRuns, and a key is in lastRuns only if a
\* run was started for it.
C9_LedgerGrows ==
    /\ [](\A k \in DOMAIN lastRuns : \E i \in 1 .. Len(launched) : launched[i].jobKey = k)
    /\ [][\A k \in DOMAIN lastRuns : k \in DOMAIN lastRuns']_vars

\* C9 witness: two keys marked, then the operator acted, and every run ended.
C9_Witness ==
    /\ Cardinality(DOMAIN lastRuns) >= 2
    /\ nOps = 1
    /\ \A r \in Runners : inFlight[r] = 0

\* C10: the slot a family's idle status shows as next is one whose key, as the
\* search built it, is not in lastRuns.
C10_NextNotInLedger ==
    /\ (agentStatusLong.st = "idle" /\ agentStatusLong.next.time # Infinity)
           => ~HasRun(lastRuns, agentStatusLong.next.jobKey)
    /\ (agentStatusShort.st = "idle" /\ agentStatusShort.next.time # Infinity)
           => ~HasRun(lastRuns, agentStatusShort.next.jobKey)

\* C10 witness: at the mount the first long slot of today is in the ledger and
\* the status shows the following one.
C10_Witness ==
    /\ now = [day |-> 1, hour |-> 0, minute |-> 0]
    /\ \E i \in 1 .. Len(LongSlots(longVideoCadence)) :
          LET job == DayJobs(LongSlots(longVideoCadence), 0, now)[i]
          IN /\ HasRun(lastRuns, job.jobKey)
             /\ agentStatusLong.st = "idle"
             /\ agentStatusLong.next.time # Infinity
             /\ agentStatusLong.next.time > GetTime(job.jobTime)


\* The times of the strictly future candidates of today and tomorrow whose key
\* is not in runs
PendingTimes(slots, runs, t) ==
    LET today == DayJobs(slots, 0, t)
        tomorrow == DayJobs(slots, 1, t)
        jobs == {today[i] : i \in 1 .. Len(slots)} \cup {tomorrow[i] : i \in 1 .. Len(slots)}
        pending == {job \in jobs : /\ GetTime(job.jobTime) > GetTime(t)
                                   /\ ~HasRun(runs, job.jobKey)}
    IN {GetTime(job.jobTime) : job \in pending}

NearestTime(slots, runs, t) ==
    LET times == PendingTimes(slots, runs, t)
    IN IF times = {} THEN Infinity
       ELSE CHOOSE m \in times : \A n \in times : m <= n

\* C11: for the current cadences, ledger and time both searches return the
\* nearest strictly future candidate of today and tomorrow whose key is absent
\* (short: over the three languages), and nothing exactly when there is none;
\* the status the mount computed shows that candidate.
C11_NearestPending ==
    LET long == findNextLongBatchJob(longVideoCadence, closure, now)
        short == findNextShortJob(shortVideoCadence, closure, now)
    IN /\ long.time = NearestTime(LongSlots(longVideoCadence), lastRuns, now)
       /\ short.time = NearestTime(ShortSlots(shortVideoCadence), lastRuns, now)
       /\ (long.time = Infinity) <=> (long.details = <<>>)
       /\ (short.time = Infinity) <=> (short.details = <<>>)
       /\ now = [day |-> 1, hour |-> 0, minute |-> 0] =>
             /\ agentStatusLong.next = long
             /\ agentStatusShort.next = short

\* C11 witness: both long slots of today are in the ledger and the status of
\* the mount shows a slot of tomorrow, while the short search found a slot of
\* today.
C11_Witness ==
    /\ now = [day |-> 1, hour |-> 0, minute |-> 0]
    /\ longVideoCadence = 2
    /\ agentStatusLong.next.day = 2
    /\ agentStatusShort.next.day = 1


\* C12: an operation that fails with a rate-limit error exactly twice and then
\* fulfils is invoked exactly 3 times, the waits are 2000 and 4000 ms, and the
\* value of the third invocation is returned.
C12_TwoRateLimitsThenSuccess ==
    (/\ call.pc \in {"resolved", "rejected"}
     /\ Len(call.log) >= 3
     /\ ~call.log[1].ok /\ IsRateLimit(call.log[1])
     /\ ~call.log[2].ok /\ IsRateLimit(call.log[2])
     /\ call.log[3].ok)
        => /\ call.pc = "resolved"
           /\ Len(call.log) = 3
           /\ call.waits = <<2000, 4000>>
           /\ Sum(call.waits) = 2000 + 4000
           /\ call.settled = <<call.log[3]>>

\* C12 witness: a call returned after two rate-limit errors, one marked by
\* status 'RESOURCE_EXHAUSTED' and one by code 429 alone.
C12_Witness ==
    /\ call.pc = "resolved"
    /\ Len(call.log) = 3
    /\ call.log[1].status = "RESOURCE_EXHAUSTED"
    /\ call.log[2].status = "500" /\ call.log[2].code = "429"

\* C13: an error with none of status 429, status 'RESOURCE_EXHAUSTED', code 429
\* ends the call at once, at the first invocation or at a later one: it is the
\* last invocation, no wait follows it, and the call rejects with that error.
C13_OnlyRateLimitRetried ==
    \A i \in 1 .. Len(call.log) :
        (/\ ~call.log[i].ok
         /\ call.log[i].status \notin {"429", "RESOURCE_EXHAUSTED"}
         /\ call.log[i].code # "429") =>
            /\ i = Len(call.log)
            /\ call.pc = "rejected"
            /\ call.settled = <<call.log[i]>>
            /\ Len(call.waits) = i - 1

\* C13 witness: the third invocation failed with an error that is not a
\* rate-limit error.
C13_Witness ==
    /\ call.pc = "rejected"
    /\ Len(call.log) = 3
    /\ call.log[3].status = "500" /\ call.log[3].code = "undefined"

\* C14: the operation is invoked at most 4 times, the k-th wait is
\* 2000 * 2^(k-1) ms, an operation that failed 4 times with rate-limit errors
\* has ended the call with the last error after 14000 ms, and every call ends.
C14_RetryBounded ==
    /\ [](/\ Len(call.log) <= 4
          /\ \A k \in 1 .. Len(call.waits) : call.waits[k] = 2000 * Pow2(k - 1)
          /\ (Len(call.log) = 4 /\ \A i \in 1 .. 4 : ~call.log[i].ok) =>
                /\ call.pc = "rejected"
                /\ Sum(call.waits) = 14000
                /\ call.settled = <<call.log[4]>>)
    /\ (call.pc = "fn") ~> (call.pc \in {"resolved", "rejected"})

\* C14 witness: a call rejected by the fourth rate-limit error.
C14_Witness ==
    /\ call.pc = "rejected"
    /\ Len(call.log) = 4
    /\ IsRateLimit(call.log[4])


\* C15: a run with a shared image starts neither createThumbnailPromptFromPost
\* nor generateImageFromPrayer; a run without one that completed started
\* generateImageFromPrayer exactly once, with 9:16 for short and 16:9 for long.
C15_ImageOnlyWithoutShared ==
    LET ImageSteps == {i \in 1 .. Len(kit.steps) : kit.steps[i].stage = "generateImageFromPrayer"}
        PromptSteps == {i \in 1 .. Len(kit.steps) :
                           kit.steps[i].stage = "createThumbnailPromptFromPost"}
    IN /\ kit.shared => (ImageSteps = {} /\ PromptSteps = {})
       /\ (~kit.shared /\ kit.pc = "done") =>
             /\ Cardinality(ImageSteps) = 1
             /\ \A i \in ImageSteps :
                   kit.steps[i].aspect = (IF kit.jobType = "short" THEN "9:16" ELSE "16:9")

\* C15 witness: a short run without a shared image completed.
C15_Witness == kit.pc = "done" /\ ~kit.shared /\ kit.jobType = "short"

C17_NothingPersistedOnFailure ==
    kit.pc = "failed" => (kit.history = <<>> /\ StoredBlobs = {})


\* The runs of runner r that have ended, and whether the i-th launch is one of
\* them (the runs of a runner are counted in the order they were started)
EndedRuns(r) == Starts(launched, r) - inFlight[r]

Ended(i) ==
    LET r == RunnerOf(launched[i].slot)
    IN Cardinality({j \in 1 .. i : RunnerOf(launched[j].slot) = r}) <= EndedRuns(r)

\* C18: once the run of an occurrence has ended, by failure or not, its key
\* is in lastRuns and no later checkSchedule starts that occurrence again.
C18_EndedRunNotRetried ==
    \A i \in 1 .. Len(launched) :
        Ended(i) =>
            /\ launched[i].jobKey \in DOMAIN lastRuns
            /\ \A j \in (i + 1) .. Len(launched) :
                  ~(launched[j].day = launched[i].day /\ launched[j].slot = launched[i].slot)

\* C19: while a family is active a checkSchedule timer is armed, whatever runs
\* are in flight, and a checkSchedule starts every visited slot that is inside
\* its window with its key absent, whatever jobs are in progress.
C19_RunsDoNotBlockTicks ==
    /\ (isAgentLongActive \/ isAgentShortActive) => jobTimer # "none"
    /\ tick.n = 1 =>
          \A i \in 1 .. Len(VisitedSlots(tick.c)) :
              LET s == VisitedSlots(tick.c)[i]
              IN (/\ IsTime(s.hour, s.minute, tick.at.hour, tick.at.minute)
                  /\ TickKey(s) \notin DOMAIN tick.c.lastRuns) => Started(s)

\* C19 witness: a checkSchedule started a slot of another runner while the
\* long batch an earlier checkSchedule had started was still in progress.
C19_Witness ==
    /\ tick.n = 1
    /\ \E i \in 1 .. Len(tick.c.jobsInProgress) : EndsWith(tick.c.jobsInProgress[i], "long")
    /\ \E i \in 1 .. Len(TickRuns) : TickRuns[i].slot.type = "short"


EnNine == [lang |-> "en", type |-> "short", hour |-> 9, minute |-> offsets["en"]]

\* The setLastRuns calls of the last checkSchedule for the en short slot of
\* hour 9, and the launches of that slot so far
EnNineMarks ==
    {i \in 1 .. Len(tick.effects) :
        /\ tick.effects[i].op = "setLastRuns"
        /\ tick.effects[i].jobKey[2] = "en"
        /\ tick.effects[i].jobKey[3] = "short"
        /\ tick.effects[i].jobKey[4] = 9}

EnNineLaunches == {i \in 1 .. Len(launched) : launched[i].slot = EnNine}

\* The scenario from the mount to the ends of the runs, for a checkSchedule at
\* minute m of hour 9 over the empty ledger: the short status is idle before,
\* the checkSchedule marks and starts the en short slot of hour 9 once, the
\* status is running while the en job runs and idle again when the short jobs
\* have ended, and the slot has one launch.
ScenarioAt(m) ==
    now.minute = m =>
        /\ tick = NoTick => (launched = <<>> /\ agentStatusShort.st = "idle")
        /\ Cardinality(EnNineLaunches) <= 1
        /\ (tick.n = 1 /\ tick.c.lastRuns = <<>>) =>
              /\ Started(EnNine)
              /\ Cardinality(EnNineMarks) = 1
              /\ Cardinality(EnNineLaunches) = 1
              /\ inFlight["en"] > 0 =>
                    /\ agentStatusShort.st = "running"
                    /\ \E i \in 1 .. Len(agentStatusShort.lang) : agentStatusShort.lang[i] = "EN"
              /\ (\A r \in {"pt", "en", "es"} : inFlight[r] = 0) =>
                    agentStatusShort.st = "idle"

\* C20 as stated: the scenario with the checkSchedule at local 9:05.
C20_Original == ScenarioAt(5)

\* C20 amended: the scenario with the checkSchedule at local 9:25, after the
\* 20 minutes by which the en track is staggered.
C20_ScenarioEnShort == ScenarioAt(25)

\* C20 witness: at 9:25 the en short job of hour 9 was started by the first
\* checkSchedule, has ended, and the short status is idle again.
C20_Witness ==
    /\ now.minute = 25
    /\ tick.n = 1 /\ tick.c.lastRuns = <<>>
    /\ Started(EnNine)
    /\ \A r \in {"pt", "en", "es"} : inFlight[r] = 0
    /\ agentStatusShort.st = "idle"


\* The identifiers of a family in the running set, and the runs of a family
\* that were started and have not ended
LongIdsInProgress == {i \in 1 .. Len(jobsInProgress) : EndsWith(jobsInProgress[i], "long")}

ShortIdsInProgress == {i \in 1 .. Len(jobsInProgress) : EndsWith(jobsInProgress[i], "short")}

LongOutstanding == inFlight["long"]

ShortOutstanding == inFlight["pt"] + inFlight["en"] + inFlight["es"]

\* C21: jobsInProgress holds an identifier of a family exactly while a run of
\* that family was started and has not ended, also when runs overlap.
C21_RunningIffOutstanding ==
    /\ (LongIdsInProgress # {}) <=> (LongOutstanding > 0)
    /\ (ShortIdsInProgress # {}) <=> (ShortOutstanding > 0)


\* C22: the end of a run leaves none of its identifiers in jobsInProgress, and
\* when no started run is left jobsInProgress is empty and an active family
\* shows idle.
C22_EndedRunsLeaveIdle ==
    /\ [][\A r \in Runners :
             inFlight'[r] < inFlight[r] =>
                 \A i \in 1 .. Len(jobsInProgress'), j \in 1 .. Len(JobIdsOf(r)) :
                     jobsInProgress'[i] # JobIdsOf(r)[j]]_vars
    /\ []((\A r \in Runners : inFlight[r] = 0) =>
             /\ jobsInProgress = <<>>
             /\ isAgentLongActive => agentStatusLong.st = "idle"
             /\ isAgentShortActive => agentStatusShort.st = "idle")

\* C22 witness: two runs were started, both have ended, and both families
\* are active and idle.
C22_Witness ==
    /\ Len(launched) >= 2
    /\ \A r \in Runners : inFlight[r] = 0
    /\ jobsInProgress = <<>>
    /\ agentStatusLong.st = "idle" /\ agentStatusShort.st = "idle"


\* C23: the step that switches a family off leaves its status disabled,
\* whether the family was idle or running.
C23_ToggleOffDisables ==
    [][/\ (isAgentLongActive /\ ~isAgentLongActive') => agentStatusLong'.st = "disabled"
       /\ (isAgentShortActive /\ ~isAgentShortActive') => agentStatusShort'.st = "disabled"]_vars


\* The type word in a key, for a family
KeyType(type) == IF type = "long" THEN "long_batch" ELSE "short"

\* No step starts a run or adds a key for the family of the given type
NoLaunchOf(type) ==
    /\ \A i \in (Len(launched) + 1) .. Len(launched') : launched'[i].slot.type # type
    /\ \A k \in DOMAIN lastRuns' : k \notin DOMAIN lastRuns => k[3] # KeyType(type)

\* Every slot of the given type that the cadence selects, that is inside its
\* window at the last checkSchedule and whose key was absent, was started
DueStarted(type, cadence) ==
    LET slots == IF type = "long" THEN LongSlots(cadence) ELSE ShortSlots(cadence)
    IN \A i \in 1 .. Len(slots) :
          (/\ IsTime(slots[i].hour, slots[i].minute, tick.at.hour, tick.at.minute)
           /\ TickKey(slots[i]) \notin DOMAIN tick.c.lastRuns) => Started(slots[i])

\* C24: while a family's flag is false no step marks a key of the family or
\* starts a run of it; a checkSchedule with one family off still starts the
\* due slots of the other; with both families off no checkSchedule timer is
\* armed.
C24_OffFamilyNotLaunched ==
    /\ [][/\ ~isAgentLongActive => NoLaunchOf("long")
          /\ ~isAgentShortActive => NoLaunchOf("short")]_vars
    /\ []((tick.n = 1 /\ ~tick.c.isAgentLongActive /\ tick.c.isAgentShortActive)
             => DueStarted("short", tick.c.shortVideoCadence))
    /\ []((tick.n = 1 /\ tick.c.isAgentLongActive /\ ~tick.c.isAgentShortActive)
             => DueStarted("long", tick.c.longVideoCadence))
    /\ []((~isAgentLongActive /\ ~isAgentShortActive) => jobTimer = "none")

\* C24 witness: the operator switched the long family off, and a checkSchedule
\* inside the window of the first long slot, its key absent, started a short
\* job and no long batch.
C24_Witness ==
    /\ nOps = 1
    /\ tick.n = 1
    /\ ~tick.c.isAgentLongActive
    /\ IsTime(6, 0, tick.at.hour, tick.at.minute)
    /\ TickKey(SlotSix) \notin DOMAIN lastRuns
    /\ TickRuns # <<>>


\* C25: a step that changes a flag or a cadence, and so restarts the effect,
\* leaves the pipeline run in flight and the running set as they are; and a
\* run whose stages all succeeded has recorded its artifact, whatever the
\* flags are by then.
C25_NoCancellation ==
    /\ [][(\/ isAgentLongActive' # isAgentLongActive
           \/ isAgentShortActive' # isAgentShortActive
           \/ longVideoCadence' # longVideoCadence
           \/ shortVideoCadence' # shortVideoCadence)
             => (kit' = kit /\ jobsInProgress' = jobsInProgress /\ inFlight' = inFlight)]_vars
    /\ [](kit.pc = "done" => (Len(kit.history) = 1 /\ StoredBlobs = {"audio", "image"}))
    /\ [](kit.pc = "failed" =>
             \/ kit.prayer = "empty" \/ kit.post = "empty"
             \/ kit.writes.audio = "failed" \/ kit.writes.image = "failed"
             \/ Len(kit.steps) < Len(FullOrder(kit.jobType, kit.shared)) - 1)

\* C25 witness: a short run, started while the short family was active, has
\* recorded its artifact with the family switched off.
C25_Witness ==
    /\ kit.pc = "done"
    /\ kit.jobType = "short"
    /\ ~isAgentShortActive
    /\ nOps = 1


\* Slot s belongs to an active family of render c and its hour is among the
\* first `cadence` hours of its track
Selected(s, c) ==
    IF s.type = "long"
    THEN /\ c.isAgentLongActive
         /\ \E i \in 1 .. 3 : i <= c.longVideoCadence /\ schedules["pt"].long[i] = s.hour
    ELSE /\ c.isAgentShortActive
         /\ \E i \in 1 .. 3 : i <= c.shortVideoCadence /\ schedules[s.lang].short[i] = s.hour

\* The effects of the last checkSchedule of kind op for slot s
EffectsFor(op, s) ==
    {i \in 1 .. Len(tick.effects) : tick.effects[i].op = op /\ tick.effects[i].slot = s}

\* A run of the given type is started by the step
LaunchOf(type) ==
    \E i \in (Len(launched) + 1) .. Len(launched') : launched'[i].slot.type = type

\* C26: a checkSchedule marks the key and starts exactly one run for every
\* slot of an active family that the cadence selects, that is inside its
\* window and whose key is absent; and a family's status goes from idle to
\* running only in a step that starts a run of the family.
C26_DueSlotStartsOneRun ==
    /\ [](tick.n = 1 =>
             \A i \in 1 .. Len(AllSlots) :
                 (/\ Selected(AllSlots[i], tick.c)
                  /\ IsTime(AllSlots[i].hour, AllSlots[i].minute, tick.at.hour, tick.at.minute)
                  /\ TickKey(AllSlots[i]) \notin DOMAIN tick.c.lastRuns)
                     => /\ Cardinality(EffectsFor("setLastRuns", AllSlots[i])) = 1
                        /\ Cardinality(EffectsFor("run", AllSlots[i])) = 1
                        /\ TickKey(AllSlots[i]) \in DOMAIN lastRuns)
    /\ [][/\ (agentStatusLong.st = "idle" /\ agentStatusLong'.st = "running")
                => LaunchOf("long")
          /\ (agentStatusShort.st = "idle" /\ agentStatusShort'.st = "running")
                => LaunchOf("short")]_vars

\* C26 witness: after the operator selected the short cadence 1, a
\* checkSchedule started the pt short job of hour 9 and the short status is
\* running.
C26_Witness ==
    /\ tick.n = 1
    /\ nOps = 1
    /\ tick.c.shortVideoCadence = 1
    /\ Started([lang |-> "pt", type |-> "short", hour |-> 9, minute |-> 0])
    /\ agentStatusShort.st = "running"


\* The local time, in minutes, at which the key was marked
MarkedAt(jobKey) == lastRuns[jobKey] + tz * 60

\* C27: every run ever started was started inside the window of its own
\* occurrence, between H:M and (H+3):59 of the occurrence's local date, so an
\* occurrence whose window has passed is never started afterwards; and a
\* checkSchedule after the window does not start the slot.
C27_SkippedAfterWindow ==
    /\ \A i \in 1 .. Len(launched) :
          LET e == launched[i]
              opens == (e.day * 24 + e.slot.hour) * 60 + e.slot.minute
              closes == (e.day * 24 + e.slot.hour + 3) * 60 + 59
          IN /\ e.jobKey \in DOMAIN lastRuns
             /\ opens <= MarkedAt(e.jobKey)
             /\ MarkedAt(e.jobKey) <= closes
    /\ tick.n = 1 =>
          \A i \in 1 .. Len(AllSlots) :
              tick.at.hour > AllSlots[i].hour + 3 => ~Started(AllSlots[i])

\* C27 witness: the long family is active with cadence 3, the first long slot
\* was never started, and a checkSchedule at 10:00 or later started other
\* slots but not that one.
C27_Witness ==
    /\ tick.n = 1
    /\ tick.at.hour >= 10
    /\ tick.c.isAgentLongActive /\ tick.c.longVideoCadence = 3
    /\ \A i \in 1 .. Len(launched) : launched[i].slot # SlotSix
    /\ TickRuns # <<>>


\* The position of the slot's hour in the hours of its track
HourIndex(s) ==
    LET hours == IF s.type = "long" THEN schedules["pt"].long ELSE schedules[s.lang].short
    IN CHOOSE i \in 1 .. Len(hours) : hours[i] = s.hour

\* C28: a checkSchedule under cadence k starts only slots whose hour is among
\* the first k hours of the track, the next pending slot a status shows is
\* among them too, and the short cadence 0 starts nothing.
C28_CadenceSelectsLeadingHours ==
    /\ tick.n = 1 =>
          \A i \in 1 .. Len(TickRuns) :
              HourIndex(TickRuns[i].slot) <=
                  (IF TickRuns[i].slot.type = "long" THEN tick.c.longVideoCadence
                                                     ELSE tick.c.shortVideoCadence)
    /\ (agentStatusLong.st = "idle" /\ agentStatusLong.next.time # Infinity) =>
          HourIndex(agentStatusLong.next.slot) <= longVideoCadence
    /\ (agentStatusShort.st = "idle" /\ agentStatusShort.next.time # Infinity) =>
          HourIndex(agentStatusShort.next.slot) <= shortVideoCadence
    /\ shortVideoCadence = 0 =>
          /\ \A i \in 1 .. Len(launched) : launched[i].slot.type # "short"
          /\ agentStatusShort.st = "idle" => agentStatusShort.next.time = Infinity

\* C28 witness: under the long cadence 1 a checkSchedule at hour 12, the key
\* of the long slot of hour 12 absent, started short jobs but not that slot.
C28_Witness ==
    /\ tick.n = 1
    /\ tick.at.hour = 12
    /\ tick.c.isAgentLongActive /\ tick.c.longVideoCadence = 1
    /\ TickKey([lang |-> "pt", type |-> "long", hour |-> 12, minute |-> 0]) \notin DOMAIN lastRuns
    /\ TickRuns # <<>>


\* The long runs of the last checkSchedule, and the hours of the anchor
\* track pt whose slot (offset 0) was inside its window with its key absent
TickLongRuns == {i \in 1 .. Len(TickRuns) : TickRuns[i].slot.type = "long"}

AnchorHoursDue ==
    {h \in {6, 12, 18} :
        /\ (tick.at.hour = h \/ (tick.at.hour > h /\ tick.at.hour <= h + 3))
        /\ <<ISODate(tick.at), "pt", "long_batch", h, 0>> \notin DOMAIN tick.c.lastRuns}

\* C29: a checkSchedule starts one long batch for every anchor hour of pt
\* (6, 12, 18, minute 0) that is due, and no other long batch, so the long
\* hours of en and es neither cause nor suppress one; and every batch puts
\* the identifiers of pt, en and es in the running set.
C29_AnchorTrackDecides ==
    tick.n = 1 =>
        /\ \A i \in TickLongRuns :
              /\ TickRuns[i].slot.hour \in AnchorHoursDue
              /\ TickRuns[i].slot.minute = 0
              /\ TickRuns[i].jobKey[2] = "pt"
        /\ \A h \in AnchorHoursDue :
              Cardinality({i \in TickLongRuns : TickRuns[i].slot.hour = h}) = 1
        /\ \A lang \in {"pt", "en", "es"} :
              Cardinality({i \in 1 .. Len(jobsInProgress) : jobsInProgress[i] = <<lang, "long">>})
                  = Cardinality(TickLongRuns)

\* C29 witness: a checkSchedule at 7:30, inside the window of en's own long
\* hour 7:20, with the key of the anchor slot of hour 6 in the ledger: no long
\* batch is started.
C29_Witness ==
    /\ tick.n = 1
    /\ tick.at.hour = 7 /\ tick.at.minute = 30
    /\ TickKey(SlotSix) \in DOMAIN tick.c.lastRuns
    /\ TickLongRuns = {}


\* A step that writes lastRuns or starts a runner
LedgerOrLaunchStep ==
    \/ lastRuns' # lastRuns
    \/ launched' # launched
    \/ \E r \in Runners : inFlight'[r] > inFlight[r]
    \/ Len(jobsInProgress') > Len(jobsInProgress)

\* A step of the operator (toggle or cadence select) or the settling of a
\* runner's promise
OperatorOrEndStep ==
    \/ nOps' # nOps
    \/ isAgentLongActive' # isAgentLongActive
    \/ isAgentShortActive' # isAgentShortActive
    \/ longVideoCadence' # longVideoCadence
    \/ shortVideoCadence' # shortVideoCadence
    \/ \E r \in Runners : inFlight'[r] < inFlight[r]

\* C30: lastRuns is written and runners are started only by a checkSchedule
\* of an armed job timer, at the current time over the effect's closure; a
\* toggle, a cadence change and the end of a run (fulfilled or rejected) leave
\* lastRuns and the started runs as they are, and a step that is none of
\* these, no checkSchedule, no clock step and no new run of the effect (the
\* status refresh) changes the two statuses only.
C30_OnlyTickMarksAndLaunches ==
    [][/\ LedgerOrLaunchStep =>
              /\ jobTimer # "none"
              /\ tick'.n = 1 /\ tick'.at = now /\ tick'.c = closure
              /\ tick'.effects # <<>>
              /\ ~OperatorOrEndStep
       /\ OperatorOrEndStep => (lastRuns' = lastRuns /\ launched' = launched)
       /\ (~OperatorOrEndStep /\ tick' = tick /\ now' = now
              /\ closure' = closure /\ jobTimer' = jobTimer) =>
              UNCHANGED <<lastRuns, jobsInProgress, inFlight, launched>>
      ]_vars

\* C30 witness: one key was marked and its run started, the run ended, the
\* operator acted, and the next status of the long family was recomputed.
C30_Witness ==
    /\ Len(launched) = 1
    /\ DOMAIN lastRuns = {launched[1].jobKey}
    /\ \A r \in Runners : inFlight[r] = 0
    /\ nOps = 1
    /\ agentStatusLong = StatusLong(closure, now)


-----------------------------------------------------------------------------
(* The timers on their own: time passes in steps of TimerStep and a timer   *)
(* fires when the time reaches its deadline; what checkSchedule decides and *)
(* what the operator does are open choices                                  *)

TimerStep == 5000

MaxTime == 120000

MaxEffectRuns == 3

\* A dependency of the effect changed and React committed: the cleanup of
\* the current run, then the effect again
Rerun(tm, active) == EffectRuns(Cleanup(tm), active)

Fired(a, tm) ==
    [n |-> 1, kind |-> a.kind, at |-> tm.time, timerRun |-> a.run,
     currentRun |-> tm.run, ranAt |-> tm.ranAt, active |-> tm.active]

\* What follows a checkSchedule that left the timers as `tm`: it marked
\* and started nothing, or its setLastRuns / setJobsInProgress made the
\* effect run again
AfterCheckSchedule(tm) ==
    \/ timers' = tm
    \/ /\ tm.run < MaxEffectRuns
       /\ timers' = Rerun(tm, tm.active)

TimePasses ==
    /\ timers.time < MaxTime
    /\ \A a \in timers.armed : a.due > timers.time
    /\ timers' = [timers EXCEPT !.time = @ + TimerStep, !.fired = NoFired]
    /\ UNCHANGED <<schedVars, serviceVars, archive, batch, form>>

\* The callback of the startup timeout: checkSchedule() and the job interval
StartupTimeoutFires ==
    /\ \E a \in timers.armed :
          /\ a.kind = "startup" /\ a.due = timers.time
          /\ AfterCheckSchedule(
                 [timers EXCEPT
                    !.armed = (@ \ {a}) \cup {[kind |-> "job", run |-> a.run,
                                               due |-> timers.time + jobInterval]},
                    !.fired = Fired(a, timers)])
    /\ UNCHANGED <<schedVars, serviceVars, archive, batch, form>>

\* The job interval fires: checkSchedule()
JobIntervalFires ==
    /\ \E a \in timers.armed :
          /\ a.kind = "job" /\ a.due = timers.time
          /\ AfterCheckSchedule(
                 [timers EXCEPT
                    !.armed = (@ \ {a}) \cup {[a EXCEPT !.due = @ + jobInterval]},
                    !.fired = Fired(a, timers)])
    /\ UNCHANGED <<schedVars, serviceVars, archive, batch, form>>

\* The status interval fires: updateStatuses()
StatusIntervalFires ==
    /\ \E a \in timers.armed :
          /\ a.kind = "status" /\ a.due = timers.time
          /\ timers' = [timers EXCEPT
                          !.armed = (@ \ {a}) \cup {[a EXCEPT !.due = @ + statusInterval]},
                          !.fired = Fired(a, timers)]
    /\ UNCHANGED <<schedVars, serviceVars, archive, batch, form>>

\* A toggle, a cadence select or the end of a run changed a dependency
DependencyChanges ==
    /\ timers.run < MaxEffectRuns
    /\ \E active \in BOOLEAN : timers' = Rerun([timers EXCEPT !.fired = NoFired], active)
    /\ UNCHANGED <<schedVars, serviceVars, archive, batch, form>>

NextTimers ==
    \/ TimePasses
    \/ StartupTimeoutFires
    \/ JobIntervalFires
    \/ StatusIntervalFires
    \/ DependencyChanges

SpecTimers == Init /\ [][NextTimers]_vars

\* C31: a checkSchedule is executed only by a timer of the current run of
\* the effect, with a family active, 10s after that run of the effect (by its
\* startup timeout) or a multiple of 30s later (by its job interval); a timer
\* that a cleanup cleared fires nothing.
C31_TicksAfterStartupDelay ==
    /\ (timers.fired.n = 1 /\ timers.fired.kind \in {"startup", "job"}) =>
          /\ timers.fired.timerRun = timers.fired.currentRun
          /\ timers.fired.active
          /\ timers.fired.at - timers.fired.ranAt >= startupDelay
          /\ (timers.fired.at - timers.fired.ranAt - startupDelay) % jobInterval = 0
          /\ timers.fired.kind = "startup" <=>
                 timers.fired.at - timers.fired.ranAt = startupDelay
    /\ \A a \in timers.armed : a.run = timers.run

\* C31 witness: the effect ran again 15s after the mount, when the job
\* interval of the first run was armed, and the job interval of the second
\* run fires its first tick 40s after that second run.
C31_Witness ==
    /\ timers.run = 2 /\ timers.ranAt = 15000
    /\ timers.fired.n = 1 /\ timers.fired.kind = "job"
    /\ timers.fired.at = 55000


-----------------------------------------------------------------------------
(* The save step of generateAndSaveKit for runs in flight at once (the runs *)
(* checkSchedule started and did not await), with the clock of Date.now()   *)

MaxRuns == 3

MaxMs == 2

\* A runner calls generateAndSaveKit: the run starts generating its assets
KitStarts ==
    /\ Len(archive.runs) < MaxRuns
    /\ \E jobLang \in {"pt", "en"}, jobType \in {"long", "short"} :
          archive' = [archive EXCEPT
                        !.runs = Append(@, [lang |-> jobLang, type |-> jobType,
                                            pc |-> "generating", id |-> <<>>])]
    /\ UNCHANGED <<schedVars, serviceVars, timers, batch, form>>

\* A stage of the run throws before the save step, or an idb.set rejects
KitFails ==
    /\ \E r \in 1 .. Len(archive.runs) :
          /\ archive.runs[r].pc \in {"generating", "writing"}
          /\ archive' = [archive EXCEPT !.runs[r].pc = "failed"]
    /\ UNCHANGED <<schedVars, serviceVars, timers, batch, form>>

\* The run reaches the save step: the id from Date.now(), and both blobs
\* written under the keys made of it
KitSaves ==
    /\ \E r \in 1 .. Len(archive.runs) :
          /\ archive.runs[r].pc = "generating"
          /\ LET id == ArtifactId(archive.ms, archive.runs[r].lang, archive.runs[r].type)
             IN archive' = [archive EXCEPT
                              !.runs[r].pc = "writing",
                              !.runs[r].id = id,
                              !.blobs = @ \cup {[key |-> k, run |-> r] : k \in BlobKeys(id)}]
    /\ UNCHANGED <<schedVars, serviceVars, timers, batch, form>>

\* Promise.all fulfilled: the record with timestamp Date.now() is put in front
\* of the history and the history is sorted
KitRecords ==
    /\ \E r \in 1 .. Len(archive.runs) :
          /\ archive.runs[r].pc = "writing"
          /\ LET newHistoryItem == [id |-> archive.runs[r].id, timestamp |-> archive.ms,
                                    run |-> r]
             IN archive' = [archive EXCEPT
                              !.runs[r].pc = "done",
                              !.history = Sort(<<newHistoryItem>> \o @)]
    /\ UNCHANGED <<schedVars, serviceVars, timers, batch, form>>

\* Date.now() moves on by a millisecond
MsPasses ==
    /\ archive.ms < MaxMs
    /\ archive' = [archive EXCEPT !.ms = @ + 1]
    /\ UNCHANGED <<schedVars, serviceVars, timers, batch, form>>

\* The system clock is set back (Date.now() is not monotonic)
ClockSetBack ==
    /\ archive.ms > 0
    /\ archive' = [archive EXCEPT !.ms = @ - 1]
    /\ UNCHANGED <<schedVars, serviceVars, timers, batch, form>>

NextArchive ==
    \/ KitStarts
    \/ KitFails
    \/ KitSaves
    \/ KitRecords
    \/ MsPasses
    \/ ClockSetBack

\* The time zone plays no part in the save step
InitArchive == Init /\ tz = 0

SpecArchive == InitArchive /\ [][NextArchive]_vars

DoneRuns == {r \in 1 .. Len(archive.runs) : archive.runs[r].pc = "done"}

\* C32: the history is sorted by timestamp descending and holds exactly one
\* record for every run that completed, and no other record.
C32_HistorySortedOnePerRun ==
    /\ \A i \in 1 .. Len(archive.history) - 1 :
          archive.history[i].timestamp >= archive.history[i + 1].timestamp
    /\ \A r \in DoneRuns :
          Cardinality({i \in 1 .. Len(archive.history) : archive.history[i].run = r}) = 1
    /\ Len(archive.history) = Cardinality(DoneRuns)

\* C32 witness: three runs in flight at once completed, the second one
\* recorded first and the last record made after the clock was set back, and
\* the history holds timestamps 2, 1, 0.
C32_Witness ==
    /\ Cardinality(DoneRuns) = 3
    /\ archive.history[1].timestamp = 2
    /\ archive.history[1].run = 2
    /\ archive.history[3].timestamp = 0
    /\ archive.history[3].run = 3

\* C33: no two records of the history have the same id and no blob key is
\* written by two runs.
C33_UniqueIds ==
    /\ \A i, j \in 1 .. Len(archive.history) :
          archive.history[i].id = archive.history[j].id => i = j
    /\ \A b, c \in archive.blobs : b.key = c.key => b.run = c.run


\* Running sets to put in place of the one a checkSchedule saw
OtherRunningSets ==
    {<<>>, JobIdsOf("long"), JobIdsOf("pt"), JobIdsOf("long") \o JobIdsOf("en"),
     JobIdsOf("pt") \o JobIdsOf("pt") \o JobIdsOf("es")}

\* Slot s is inside its window at the time of the last checkSchedule
InWindow(s) ==
    \/ tick.at.hour = s.hour /\ tick.at.minute >= s.minute
    \/ tick.at.hour > s.hour /\ tick.at.hour <= s.hour + 3

\* A job of the family of slot s was in progress at the last checkSchedule
FamilyBusy(s) ==
    \E i \in 1 .. Len(tick.c.jobsInProgress) : tick.c.jobsInProgress[i][2] = s.type

\* C34: what a checkSchedule marks and starts is the same for every running
\* set put in place of the one it saw, the time, the flags, the cadences and
\* lastRuns being equal; and a selected slot inside its window with its key
\* absent is started also while a job of its family is in progress.
C34_RunningSetNotConsulted ==
    tick.n = 1 =>
        /\ \A jobs \in OtherRunningSets :
              checkSchedule([tick.c EXCEPT !.jobsInProgress = jobs], tick.at) = tick.effects
        /\ \A i \in 1 .. Len(AllSlots) :
              (/\ FamilyBusy(AllSlots[i])
               /\ Selected(AllSlots[i], tick.c)
               /\ InWindow(AllSlots[i])
               /\ TickKey(AllSlots[i]) \notin DOMAIN tick.c.lastRuns) => Started(AllSlots[i])

\* C34 witness: a checkSchedule started a long batch while the identifiers
\* of an earlier long batch were in the running set it saw.
C34_Witness ==
    /\ tick.n = 1
    /\ \E i \in 1 .. Len(tick.c.jobsInProgress) : tick.c.jobsInProgress[i] = <<"pt", "long">>
    /\ \E i \in 1 .. Len(TickRuns) : TickRuns[i].slot.type = "long"


\* C35: no runner has two runs in flight at once, and no checkSchedule
\* starts two runs for the same language and type.
C35_OneRunPerTrack ==
    /\ \A r \in Runners : inFlight[r] <= 1
    /\ tick.n = 1 =>
          \A i, j \in 1 .. Len(TickRuns) :
              (/\ TickRuns[i].slot.lang = TickRuns[j].slot.lang
               /\ TickRuns[i].slot.type = TickRuns[j].slot.type) => i = j


-----------------------------------------------------------------------------
(* One long batch: the topic, the shared image, then the kits of pt, en, es *)
(* one after the other, each kit run by the steps of generateAndSaveKit     *)

BatchStages == {"topic", "visualPrayer", "visualPrompt", "image", "blob"}

\* The function a stage of the batch awaits
BatchCallName(pc) ==
    CASE pc = "topic" -> "getTrendingTopic"
      [] pc = "visualPrayer" -> "generateGuidedPrayer"
      [] pc = "visualPrompt" -> "createMediaPromptFromPrayer"
      [] pc = "image" -> "generateImageFromPrayer"
      [] pc = "blob" -> "fetch"
      [] pc = "wait" -> "setTimeout"

\* The batch moves on to stage pc and issues its call
BatchEnter(b, pc) ==
    [b EXCEPT !.pc = pc,
              !.calls = Append(@, [stage |-> BatchCallName(pc),
                                   aspect |-> IF pc = "image" THEN "16:9" ELSE "none",
                                   lang |-> "none"])]

\* Mutant: the kits are called without the shared image
KitOfBatchOwnImage == Enter([NoKit EXCEPT !.jobType = "long", !.shared = FALSE], "prayer")

\* generateAndSaveKit(lang, 'long', theme, subthemes, imageBlob)
KitOfBatch == Enter([NoKit EXCEPT !.jobType = "long", !.shared = TRUE], "prayer")

\* The calls of the kit that just settled, as calls of the batch
KitCalls(b) ==
    [i \in 1 .. Len(kit.steps) |->
        [stage |-> kit.steps[i].stage, aspect |-> kit.steps[i].aspect,
         lang |-> BatchLangs[b.lang]]]

\* runAutomatedLongVideoBatch(): getTrendingTopic('pt', 'long')
BatchStarts ==
    /\ batch.pc = "idle"
    /\ batch' = BatchEnter(batch, "topic")
    /\ UNCHANGED <<schedVars, serviceVars, timers, archive, form>>

\* The call the batch awaits fulfils; an empty image throws, and after the
\* blob of the shared image the kit of pt is called
BatchCallFulfils ==
    /\ batch.pc \in BatchStages
    /\ \E v \in {"value", "empty"} :
          CASE batch.pc = "topic" ->
                  batch' = BatchEnter(batch, "visualPrayer") /\ kit' = kit
            [] batch.pc = "visualPrayer" ->
                  batch' = BatchEnter(batch, "visualPrompt") /\ kit' = kit
            [] batch.pc = "visualPrompt" ->
                  batch' = BatchEnter(batch, "image") /\ kit' = kit
            [] batch.pc = "image" ->
                  /\ batch' = IF v = "empty" THEN [batch EXCEPT !.pc = "failed"]
                              ELSE BatchEnter(batch, "blob")
                  /\ kit' = kit
            [] batch.pc = "blob" ->
                  /\ batch' = [batch EXCEPT !.pc = "kit", !.lang = 1,
                                            !.kits = Append(@, BatchLangs[1])]
                  /\ kit' = KitOfBatch
    /\ UNCHANGED <<schedVars, call, timers, archive, form>>

\* The call the batch awaits rejects: catch, then finally
BatchCallRejects ==
    /\ batch.pc \in BatchStages
    /\ batch' = [batch EXCEPT !.pc = "failed"]
    /\ UNCHANGED <<schedVars, serviceVars, timers, archive, form>>

\* The awaited kit fulfilled: its record is in the history; the 2000 ms wait
\* before the next language, or the end of the batch
KitReturns ==
    /\ batch.pc = "kit" /\ kit.pc = "done"
    /\ LET b == [batch EXCEPT
                   !.calls = @ \o KitCalls(batch),
                   !.artifacts = Append(@, [lang |-> BatchLangs[batch.lang],
                                            type |-> kit.history[1].type,
                                            image |-> IF kit.shared THEN "shared"
                                                                    ELSE "own"])]
       IN batch' = IF batch.lang < Len(BatchLangs) THEN BatchEnter(b, "wait")
                   ELSE [b EXCEPT !.pc = "done"]
    /\ UNCHANGED <<schedVars, serviceVars, timers, archive, form>>

\* Mutant: a kit that throws is skipped and the batch goes on
KitThrowsContinuing ==
    /\ batch.pc = "kit" /\ kit.pc = "failed"
    /\ LET b == [batch EXCEPT !.calls = @ \o KitCalls(batch)]
       IN batch' = IF batch.lang < Len(BatchLangs) THEN BatchEnter(b, "wait")
                   ELSE [b EXCEPT !.pc = "failed"]
    /\ UNCHANGED <<schedVars, serviceVars, timers, archive, form>>

\* The awaited kit rejected: catch, then finally
KitThrows ==
    /\ batch.pc = "kit" /\ kit.pc = "failed"
    /\ batch' = [batch EXCEPT !.pc = "failed", !.calls = @ \o KitCalls(batch)]
    /\ UNCHANGED <<schedVars, serviceVars, timers, archive, form>>

\* The 2000 ms wait is over: the kit of the next language is called
WaitEnds ==
    /\ batch.pc = "wait"
    /\ batch' = [batch EXCEPT !.pc = "kit", !.lang = @ + 1,
                              !.kits = Append(@, BatchLangs[batch.lang + 1])]
    /\ kit' = KitOfBatch
    /\ UNCHANGED <<schedVars, call, timers, archive, form>>

\* The steps of the kit the batch awaits
KitOfBatchSteps ==
    /\ batch.pc = "kit"
    /\ (RemoteFulfils \/ RemoteRejects \/ CooldownEnds \/ WriteSettles)

NextBatch ==
    \/ BatchStarts
    \/ BatchCallFulfils
    \/ BatchCallRejects
    \/ KitReturns
    \/ KitThrows
    \/ WaitEnds
    \/ KitOfBatchSteps

SpecBatch == Init /\ [][NextBatch]_vars

\* The positions of the calls of a function among the calls of the batch
CallsOf(name) == {i \in 1 .. Len(batch.calls) : batch.calls[i].stage = name}

\* C36: a batch that ended without failure called getTrendingTopic once and
\* generateImageFromPrayer once, with 16:9 and before every call of a kit;
\* the calls of the kits come in the order pt, en, es, a kit being called
\* only after the one before it returned; and it recorded three artifacts,
\* of pt, en, es, each with the shared image.
C36_BatchSharesOneImage ==
    /\ batch.pc = "done" =>
          /\ Cardinality(CallsOf("getTrendingTopic")) = 1
          /\ Cardinality(CallsOf("generateImageFromPrayer")) = 1
          /\ \A i \in CallsOf("generateImageFromPrayer") :
                /\ batch.calls[i].aspect = "16:9"
                /\ \A j \in 1 .. i : batch.calls[j].lang = "none"
          /\ \A i, j \in 1 .. Len(batch.calls) :
                (i < j /\ batch.calls[i].lang = "es") => batch.calls[j].lang = "es"
          /\ \A i, j \in 1 .. Len(batch.calls) :
                (i < j /\ batch.calls[i].lang = "en") => batch.calls[j].lang \in {"en", "none", "es"}
          /\ \A i, j \in 1 .. Len(batch.calls) :
                (i < j /\ batch.calls[j].lang = "pt") => batch.calls[i].lang \in {"pt", "none"}
          /\ batch.kits = BatchLangs
          /\ [i \in 1 .. Len(batch.artifacts) |-> batch.artifacts[i].lang] = BatchLangs
          /\ \A i \in 1 .. Len(batch.artifacts) :
                batch.artifacts[i].image = "shared" /\ batch.artifacts[i].type = "long"
    /\ batch.pc = "kit" => Len(batch.artifacts) = batch.lang - 1

\* C36 witness: the batch ended after the kit of es returned.
C36_Witness ==
    /\ batch.pc = "done"
    /\ Len(batch.artifacts) = 3
    /\ kit.pc = "done"

\* C37: a batch that failed started the kits of a prefix of pt, en, es,
\* recorded the artifacts of the kits that returned, all started kits but
\* the last, and from then on starts no kit and records nothing.
C37_FailedBatchRecordsPrefix ==
    /\ [](batch.pc = "failed" =>
             /\ batch.kits = SubSeq(BatchLangs, 1, Len(batch.kits))
             /\ [i \in 1 .. Len(batch.artifacts) |-> batch.artifacts[i].lang]
                    = SubSeq(BatchLangs, 1, Len(batch.artifacts))
             /\ Len(batch.artifacts) = IF batch.kits = <<>> THEN 0 ELSE Len(batch.kits) - 1)
    /\ [][batch.pc = "failed" => batch' = batch]_vars

\* C37 witness: the kit of en threw after the kit of pt had returned: one
\* artifact, of pt, and no kit of es.
C37_Witness ==
    /\ batch.pc = "failed"
    /\ batch.kits = <<"pt", "en">>
    /\ Len(batch.artifacts) = 1 /\ batch.artifacts[1].lang = "pt"


\* The key checkSchedule builds for the occurrence a search result stands
\* for, at the local time the occurrence is scheduled
FiringKey(job) ==
    JobKeyOf(ISODate([day |-> job.day, hour |-> job.slot.hour, minute |-> job.slot.minute]),
             job.slot)

\* C38: the key under which a search looked up the occurrence a status shows
\* as next is the key checkSchedule builds and marks when the occurrence is
\* started at its scheduled time.
C38_SearchKeyIsTickKey ==
    /\ (agentStatusLong.st = "idle" /\ agentStatusLong.next.time # Infinity)
           => agentStatusLong.next.jobKey = FiringKey(agentStatusLong.next)
    /\ (agentStatusShort.st = "idle" /\ agentStatusShort.next.time # Infinity)
           => agentStatusShort.next.jobKey = FiringKey(agentStatusShort.next)


-----------------------------------------------------------------------------
(* ApiKeySelector: the operator types and submits.  A string is the         *)
(* sequence of its characters                                               *)

MaxKeyLen == 3

MaxSubmits == 2

\* Characters String.prototype.trim removes, and others
WhiteSpace == {" ", "\t"}

Chars == WhiteSpace \cup {"A", "z"}

Strings == UNION {[1 .. n -> Chars] : n \in 0 .. MaxKeyLen}

\* Mutant: the key is passed as typed
TrimNone(str) == str

RECURSIVE TrimStart(_)
TrimStart(str) ==
    IF str # <<>> /\ Head(str) \in WhiteSpace THEN TrimStart(Tail(str)) ELSE str

RECURSIVE TrimEnd(_)
TrimEnd(str) ==
    IF str # <<>> /\ str[Len(str)] \in WhiteSpace
    THEN TrimEnd(SubSeq(str, 1, Len(str) - 1)) ELSE str

\* String.prototype.trim
Trim(str) == TrimEnd(TrimStart(str))

\* onChange: setInputKey(e.target.value)
SetInputKey ==
    /\ \E value \in Strings :
          /\ value # form.inputKey
          /\ form' = [form EXCEPT !.inputKey = value]
    /\ UNCHANGED <<schedVars, serviceVars, timers, archive, batch>>

\* handleSubmit: an input that trims to the empty string sets the error and
\* returns; otherwise onKeySelected(inputKey.trim())
handleSubmit ==
    /\ form.submits < MaxSubmits
    /\ form' = IF Trim(form.inputKey) = <<>>
               THEN [form EXCEPT !.submits = @ + 1,
                                 !.error = "Please enter a valid API Key"]
               ELSE [form EXCEPT !.submits = @ + 1,
                                 !.selected = Append(@, Trim(form.inputKey))]
    /\ UNCHANGED <<schedVars, serviceVars, timers, archive, batch>>

\* The time zone plays no part in the form
InitForm == Init /\ tz = 0

NextForm == SetInputKey \/ handleSubmit

SpecForm == InitForm /\ [][NextForm]_vars

\* str is made of white space only (the empty string included)
IsBlank(str) == \A i \in 1 .. Len(str) : str[i] \in WhiteSpace

\* key is str without the white space at its two ends
IsTrimmed(key, str) ==
    /\ key # <<>>
    /\ key[1] \notin WhiteSpace /\ key[Len(key)] \notin WhiteSpace
    /\ \E before, after \in {w \in Strings : IsBlank(w)} : str = before \o key \o after

\* C39: a submit of an empty or white-space-only input sets the error
\* message and does not call onKeySelected; a submit of any other input calls
\* onKeySelected once, with the input trimmed; nothing else calls it.
C39_SubmitValidatesKey ==
    [][/\ form'.submits # form.submits =>
             IF IsBlank(form.inputKey)
             THEN /\ form'.error = "Please enter a valid API Key"
                  /\ form'.selected = form.selected
             ELSE /\ Len(form'.selected) = Len(form.selected) + 1
                  /\ SubSeq(form'.selected, 1, Len(form.selected)) = form.selected
                  /\ IsTrimmed(form'.selected[Len(form'.selected)], form.inputKey)
       /\ form'.submits = form.submits => form'.selected = form.selected
      ]_vars

\* C39 witness: a white-space-only input was submitted, then " A " was
\* submitted: the error is set and onKeySelected was called once, with "A".
C39_Witness ==
    /\ form.submits = 2
    /\ form.error = "Please enter a valid API Key"
    /\ form.inputKey = <<" ", "A", " ">>
    /\ form.selected = << <<"A">> >>

====
